---- MODULE Spec2Model ----
(***************************************************************************)
(* Model of src/database.py: the two storage backends                      *)
(* (JSONDatabaseManager, FirestoreDatabaseManager) driven in lock step by  *)
(* the same sequence of interface calls.  Variables prefixed j_ hold the   *)
(* four JSON array files, variables prefixed f_ hold the four Firestore    *)
(* collections.  Every action is one interface call applied to both        *)
(* backends; `ret` records the call, its arguments and both return values. *)
(***************************************************************************)
EXTENDS Integers, Sequences, FiniteSets, TLC

VARIABLES j_users, j_prefs, j_decisions, j_chat,
          f_users, f_prefs, f_decisions, f_chat,
          now, uuid_n, cur_pw, ret, db,
          current_page, decision_recorder, recorder_started, decision_chat,
          calls

vars == <<j_users, j_prefs, j_decisions, j_chat,
          f_users, f_prefs, f_decisions, f_chat,
          now, uuid_n, cur_pw, ret, db,
          current_page, decision_recorder, recorder_started, decision_chat,
          calls>>

userVars == <<j_users, j_prefs, f_users, f_prefs, cur_pw>>
decisionVars == <<j_decisions, f_decisions, uuid_n>>
chatVars == <<j_chat, f_chat>>
\* st.session_state of the logged-in user: the page shown and the three keys
\* of the record page
pageVars == <<current_page, decision_recorder, recorder_started, decision_chat>>
\* the state of the process around the stores: the module-level handle db,
\* the session state, and the calls of create_user in progress in the
\* processes sharing the data directory
appVars == <<db, pageVars, calls>>

(* ------------------------------ bounds -------------------------------- *)
MaxUsers == 2
MaxClock == 3
MaxDecisions == 2
MaxGen == 1
MaxChat == 1
MaxChatLog == 2
MaxExchanges == 2
MaxSaves == 2
MaxPageChat == 4
MaxText == 5
MaxProcs == 2

(* ------------------------------ inputs -------------------------------- *)
Emails == {"a@x.com", "A@x.com"}
Passwords == {"pw1", "wrong"}
FullNames == {"Ann"}
\* caller-supplied owner ids: the JSON backend is handed the integer n, the
\* Firestore backend the document key FireUserId(n) of the n-th created user
OwnerIdx == 1..MaxUsers
PrefKeys == {"share_data_with_ai", "view_chat_history"}
\* the partial preference dictionaries a caller may pass
PrefDicts == UNION {[K -> BOOLEAN] : K \in SUBSET PrefKeys}

\* owners and decision dictionaries handed to the decision operations
DecisionOwners == {1, 2}
DecisionIds == {"d1"}

\* Python None as the value of a field; an absent result is the empty tuple
None == "None"
Nothing == <<>>
Some(x) == <<x>>

\* the processes that share the data directory, and one call of create_user
\* in each: pc is the position in the method, users and uid its local
\* variables, result what it returned; overlapped records that the call
\* started while another one was in progress
Procs == 1..MaxProcs
IdleCall ==
    [pc |-> "idle", email |-> None, users |-> <<>>, uid |-> 0, prefs |-> <<>>,
     result |-> Nothing, overlapped |-> FALSE]
NoCalls == [p \in Procs |-> IdleCall]

\* dict.get(key, default)
Get(d, k, default) == IF k \in DOMAIN d THEN d[k] ELSE default

(* ------------------------ identity and hashing ------------------------ *)
\* hashlib.sha256(password.encode()).hexdigest(), tabulated on Passwords
\* (first 16 hex digits of the digest)
_hash_password(password) ==
    CASE password = "pw1" -> "c592df4a86933b92"
      [] password = "pw2" -> "93915a0a4bf8f634"
      [] password = "wrong" -> "8810ad581e59f2bc"

\* the key Firestore generates for the n-th document made with document()
FireUserId(n) == <<"auto", n>>

(* ------------------------- JSON backend: users ------------------------ *)
JSON_email_exists(email) == \E i \in 1..Len(j_users) : j_users[i].email = email

JSON_create_user_NoCheck(email, password, full_name, t) ==
    LET uid == Len(j_users) + 1 IN
    [ret |-> TRUE,
     users |-> Append(j_users, [id |-> uid, email |-> email,
                                password_hash |-> _hash_password(password),
                                full_name |-> full_name, created_at |-> t]),
     prefs |-> Append(j_prefs, [user_id |-> uid, share_data_with_ai |-> FALSE,
                                view_chat_history |-> TRUE])]

\* a sign-up that takes the number of stored users as the new id
JSON_create_user_CountAsId(email, password, full_name, t) ==
    IF JSON_email_exists(email)
    THEN [ret |-> FALSE, users |-> j_users, prefs |-> j_prefs]
    ELSE LET uid == Len(j_users) IN
         [ret |-> TRUE,
          users |-> Append(j_users, [id |-> uid, email |-> email,
                                     password_hash |-> _hash_password(password),
                                     full_name |-> full_name, created_at |-> t]),
          prefs |-> Append(j_prefs, [user_id |-> uid, share_data_with_ai |-> FALSE,
                                     view_chat_history |-> TRUE])]

JSON_create_user(email, password, full_name, t) ==
    IF JSON_email_exists(email)
    THEN [ret |-> FALSE, users |-> j_users, prefs |-> j_prefs]
    ELSE LET uid == Len(j_users) + 1 IN
         [ret |-> TRUE,
          users |-> Append(j_users, [id |-> uid, email |-> email,
                                     password_hash |-> _hash_password(password),
                                     full_name |-> full_name, created_at |-> t]),
          prefs |-> Append(j_prefs, [user_id |-> uid, share_data_with_ai |-> FALSE,
                                     view_chat_history |-> TRUE])]

\* the first of the indexes in S (a loop over a list stops at its first
\* hit), 0 if there is none
FirstIdx(S) ==
    IF S = {} THEN 0 ELSE CHOOSE i \in S : \A k \in S : i <= k

JSON_authenticate_user(email, password) ==
    LET i == FirstIdx({k \in 1..Len(j_users) :
                          /\ j_users[k].email = email
                          /\ j_users[k].password_hash = _hash_password(password)})
    IN IF i = 0 THEN Nothing ELSE Some(j_users[i].id)

\* {k: v for k, v in u.items() if k != "password_hash"}
WithoutHash(u) == [k \in DOMAIN u \ {"password_hash"} |-> u[k]]

JSON_get_user_Raw(user_id) ==
    LET i == FirstIdx({k \in 1..Len(j_users) : j_users[k].id = user_id})
    IN IF i = 0 THEN Nothing ELSE Some(j_users[i])

JSON_get_user(user_id) ==
    LET i == FirstIdx({k \in 1..Len(j_users) : j_users[k].id = user_id})
    IN IF i = 0 THEN Nothing ELSE Some(WithoutHash(j_users[i]))

JSON_get_user_by_email(email) ==
    LET i == FirstIdx({k \in 1..Len(j_users) : j_users[k].email = email})
    IN IF i = 0 THEN Nothing ELSE Some(WithoutHash(j_users[i]))

JSON_update_user_password_Raw(user_id, new_password) ==
    LET i == FirstIdx({k \in 1..Len(j_users) : j_users[k].id = user_id})
    IN IF i = 0 THEN [ret |-> FALSE, users |-> j_users]
       ELSE [ret |-> TRUE,
             users |-> [j_users EXCEPT ![i].password_hash = new_password]]

JSON_update_user_password(user_id, new_password) ==
    LET i == FirstIdx({k \in 1..Len(j_users) : j_users[k].id = user_id})
    IN IF i = 0 THEN [ret |-> FALSE, users |-> j_users]
       ELSE [ret |-> TRUE,
             users |-> [j_users EXCEPT ![i].password_hash = _hash_password(new_password)]]

(* ---------------------- JSON backend: preferences --------------------- *)
DefaultPrefs == [share_data_with_ai |-> FALSE, view_chat_history |-> TRUE]

JSON_get_user_preferences_AnyUser(user_id) ==
    LET i == FirstIdx(1..Len(j_prefs))
    IN IF i = 0 THEN DefaultPrefs
       ELSE [share_data_with_ai |-> j_prefs[i].share_data_with_ai,
             view_chat_history |-> j_prefs[i].view_chat_history]

JSON_get_user_preferences(user_id) ==
    LET i == FirstIdx({k \in 1..Len(j_prefs) : j_prefs[k].user_id = user_id})
    IN IF i = 0 THEN DefaultPrefs
       ELSE [share_data_with_ai |-> j_prefs[i].share_data_with_ai,
             view_chat_history |-> j_prefs[i].view_chat_history]

JSON_update_user_preferences(user_id, preferences) ==
    LET i == FirstIdx({k \in 1..Len(j_prefs) : j_prefs[k].user_id = user_id})
    IN IF i # 0
       THEN [ret |-> TRUE,
             prefs |-> [j_prefs EXCEPT
                 ![i].share_data_with_ai =
                     Get(preferences, "share_data_with_ai", j_prefs[i].share_data_with_ai),
                 ![i].view_chat_history =
                     Get(preferences, "view_chat_history", j_prefs[i].view_chat_history)]]
       ELSE [ret |-> TRUE,
             prefs |-> Append(j_prefs,
                 [user_id |-> user_id,
                  share_data_with_ai |-> Get(preferences, "share_data_with_ai", FALSE),
                  view_chat_history |-> Get(preferences, "view_chat_history", TRUE)])]

(* ----------------------- Firestore backend: users --------------------- *)
\* collection.where("email", "==", email).limit(1).get(): the matching
\* document keys, cut to the first one in key order
F_users_where_email(email) ==
    LET hits == {k \in DOMAIN f_users : f_users[k].email = email}
    IN IF hits = {} THEN {}
       ELSE {CHOOSE k \in hits : \A h \in hits : k[2] <= h[2]}

\* Document.set(data, merge=True): the fields of data replace or extend doc
Merge(doc, data) ==
    [k \in DOMAIN doc \cup DOMAIN data |-> IF k \in DOMAIN data THEN data[k] ELSE doc[k]]

\* collection with document key set to doc (created or replaced)
SetDoc(coll, key, doc) ==
    [k \in DOMAIN coll \cup {key} |-> IF k = key THEN doc ELSE coll[k]]

F_create_user(email, password, full_name, t) ==
    IF F_users_where_email(email) # {}
    THEN [ret |-> FALSE, users |-> f_users, prefs |-> f_prefs]
    ELSE LET uid == FireUserId(Cardinality(DOMAIN f_users) + 1) IN
         [ret |-> TRUE,
          users |-> SetDoc(f_users, uid,
                           [email |-> email, password_hash |-> _hash_password(password),
                            full_name |-> full_name, created_at |-> t]),
          prefs |-> SetDoc(f_prefs, uid,
                           [user_id |-> uid, share_data_with_ai |-> FALSE,
                            view_chat_history |-> TRUE])]

F_authenticate_user(email, password) ==
    LET q == {k \in F_users_where_email(email) :
                 f_users[k].password_hash = _hash_password(password)}
    IN IF q = {} THEN Nothing ELSE Some(CHOOSE k \in q : TRUE)

\* d = doc.to_dict(); d.pop("password_hash", None); d["id"] = doc.id
F_get_user(user_id) ==
    IF user_id \in DOMAIN f_users
    THEN Some(Merge(WithoutHash(f_users[user_id]), [id |-> user_id]))
    ELSE Nothing

F_get_user_by_email(email) ==
    LET q == F_users_where_email(email)
    IN IF q = {} THEN Nothing
       ELSE LET k == CHOOSE h \in q : TRUE
            IN Some(Merge(WithoutHash(f_users[k]), [id |-> k]))

F_update_user_password(user_id, new_password) ==
    IF user_id \in DOMAIN f_users
    THEN [ret |-> TRUE,
          users |-> [f_users EXCEPT ![user_id].password_hash = _hash_password(new_password)]]
    ELSE [ret |-> FALSE, users |-> f_users]

(* -------------------- Firestore backend: preferences ------------------ *)
F_get_user_preferences(user_id) ==
    IF user_id \in DOMAIN f_prefs
    THEN [share_data_with_ai |-> Get(f_prefs[user_id], "share_data_with_ai", FALSE),
          view_chat_history |-> Get(f_prefs[user_id], "view_chat_history", TRUE)]
    ELSE DefaultPrefs

F_update_user_preferences(user_id, preferences) ==
    LET data == [share_data_with_ai |-> Get(preferences, "share_data_with_ai", FALSE),
                 view_chat_history |-> Get(preferences, "view_chat_history", TRUE)]
        old == IF user_id \in DOMAIN f_prefs THEN f_prefs[user_id] ELSE <<>>
    IN [ret |-> TRUE, prefs |-> SetDoc(f_prefs, user_id, Merge(old, data))]

(* ------------------------ JSON backend: decisions ------------------- *)
\* uuid.uuid4(): a value no earlier call returned and no caller knows yet
_gen_id == "uuid-" \o ToString(uuid_n + 1)

\* decision_data.get("id") or _gen_id()
IdOrGen(decision_data) ==
    LET x == Get(decision_data, "id", None)
    IN IF x = None \/ x = "" THEN _gen_id ELSE x

\* the fields both backends build from decision_data (lines 120-133, 289-302)
PayloadFields(user_id, decision_data, t) ==
    [user_id |-> user_id,
     title |-> Get(decision_data, "title", None),
     description |-> Get(decision_data, "description", None),
     goal |-> Get(decision_data, "goal", None),
     constraints |-> Get(decision_data, "constraints", <<>>),
     alternatives |-> Get(decision_data, "alternatives", <<>>),
     final_choice |-> Get(decision_data, "final_choice", None),
     reasoning |-> Get(decision_data, "reasoning", None),
     expected_outcome |-> Get(decision_data, "expected_outcome", None),
     memory_layer |-> Get(decision_data, "memory_layer", "private"),
     tags |-> Get(decision_data, "tags", <<>>),
     reflection |-> Get(decision_data, "reflection", None),
     outcome_status |-> Get(decision_data, "outcome_status", None),
     created_at |-> t]

JSON_find_decision(user_id, decision_id) ==
    FirstIdx({k \in 1..Len(j_decisions) :
                 j_decisions[k].id = decision_id /\ j_decisions[k].user_id = user_id})

JSON_save_decision_AlwaysGen(user_id, decision_data, t) ==
    LET decision_id == _gen_id
        payload == Merge([id |-> decision_id], PayloadFields(user_id, decision_data, t))
    IN [ret |-> decision_id, decisions |-> <<payload>> \o j_decisions]

JSON_save_decision_AlwaysInsert(user_id, decision_data, t) ==
    LET decision_id == IdOrGen(decision_data)
        payload == Merge([id |-> decision_id], PayloadFields(user_id, decision_data, t))
    IN [ret |-> decision_id, decisions |-> <<payload>> \o j_decisions]

\* an update that leaves created_at as it was stored
JSON_save_decision_KeepCreated(user_id, decision_data, t) ==
    LET decision_id == IdOrGen(decision_data)
        found == JSON_find_decision(user_id, decision_id)
        payload == Merge([id |-> decision_id], PayloadFields(user_id, decision_data, t))
    IN [ret |-> decision_id,
        decisions |-> IF found # 0
                      THEN [j_decisions EXCEPT ![found] =
                                [Merge(@, payload) EXCEPT
                                     !.created_at = j_decisions[found].created_at]]
                      ELSE <<payload>> \o j_decisions]

JSON_save_decision(user_id, decision_data, t) ==
    LET decision_id == IdOrGen(decision_data)
        found == JSON_find_decision(user_id, decision_id)
        payload == Merge([id |-> decision_id], PayloadFields(user_id, decision_data, t))
    IN [ret |-> decision_id,
        decisions |-> IF found # 0
                      THEN [j_decisions EXCEPT ![found] = Merge(@, payload)]
                      ELSE <<payload>> \o j_decisions]

JSON_get_decision_AnyOwner(user_id, decision_id) ==
    LET i == FirstIdx({k \in 1..Len(j_decisions) : j_decisions[k].id = decision_id})
    IN IF i = 0 THEN Nothing ELSE Some(j_decisions[i])

JSON_get_decision(user_id, decision_id) ==
    LET i == JSON_find_decision(user_id, decision_id)
    IN IF i = 0 THEN Nothing ELSE Some(j_decisions[i])

\* list.sort(key=created_at, reverse=True): descending and stable, elements
\* with equal keys keep their order
RECURSIVE SortByCreatedDesc(_)
SortByCreatedDesc(s) ==
    IF s = <<>> THEN <<>>
    ELSE LET x == s[Len(s)]
             rest == SortByCreatedDesc(SubSeq(s, 1, Len(s) - 1))
             Before(d) == d.created_at >= x.created_at
             After(d) == d.created_at < x.created_at
         IN SelectSeq(rest, Before) \o <<x>> \o SelectSeq(rest, After)

\* seq[:limit] if limit else seq   (limit: Nothing, or Some(n))
Limit(s, limit) ==
    IF limit = Nothing \/ limit[1] = 0 THEN s
    ELSE SubSeq(s, 1, IF limit[1] < Len(s) THEN limit[1] ELSE Len(s))

JSON_get_user_decisions(user_id, limit) ==
    LET Own(d) == d.user_id = user_id
    IN Limit(SortByCreatedDesc(SelectSeq(j_decisions, Own)), limit)

JSON_delete_decision_AnyOwner(user_id, decision_id) ==
    LET Keep(d) == ~(d.id = decision_id)
        new == SelectSeq(j_decisions, Keep)
        changed == Len(new) # Len(j_decisions)
    IN [ret |-> changed, decisions |-> IF changed THEN new ELSE j_decisions]

JSON_delete_decision(user_id, decision_id) ==
    LET Keep(d) == ~(d.id = decision_id /\ d.user_id = user_id)
        new == SelectSeq(j_decisions, Keep)
        changed == Len(new) # Len(j_decisions)
    IN [ret |-> changed, decisions |-> IF changed THEN new ELSE j_decisions]

(* --------------------- Firestore backend: decisions ------------------- *)
F_save_decision(user_id, decision_data, t) ==
    LET decision_id == IdOrGen(decision_data)
        payload == PayloadFields(user_id, decision_data, t)
        old == IF decision_id \in DOMAIN f_decisions THEN f_decisions[decision_id] ELSE <<>>
    IN [ret |-> decision_id,
        decisions |-> SetDoc(f_decisions, decision_id, Merge(old, payload))]

F_get_decision(user_id, decision_id) ==
    IF decision_id \in DOMAIN f_decisions /\ f_decisions[decision_id].user_id = user_id
    THEN Some(Merge(f_decisions[decision_id], [id |-> decision_id]))
    ELSE Nothing

\* position of a document key in key order (keys are compared as strings)
DocRank(key) ==
    IF key \in DecisionIds THEN 0
    ELSE CHOOSE n \in 1..(MaxGen + 1) : key = "uuid-" \o ToString(n)

\* the documents of keys, as a sequence ordered by created_at descending,
\* equal timestamps by document key descending
RECURSIVE F_order_desc(_)
F_order_desc(keys) ==
    IF keys = {} THEN <<>>
    ELSE LET top == CHOOSE k \in keys : \A h \in keys :
                        \/ f_decisions[k].created_at > f_decisions[h].created_at
                        \/ /\ f_decisions[k].created_at = f_decisions[h].created_at
                           /\ DocRank(k) >= DocRank(h)
         IN <<Merge(f_decisions[top], [id |-> top])>> \o F_order_desc(keys \ {top})

F_get_user_decisions(user_id, limit) ==
    Limit(F_order_desc({k \in DOMAIN f_decisions : f_decisions[k].user_id = user_id}), limit)

F_delete_decision(user_id, decision_id) ==
    IF decision_id \in DOMAIN f_decisions /\ f_decisions[decision_id].user_id = user_id
    THEN [ret |-> TRUE,
          decisions |-> [k \in DOMAIN f_decisions \ {decision_id} |-> f_decisions[k]]]
    ELSE [ret |-> FALSE, decisions |-> f_decisions]

(* --------------------------- JSON backend: chat ----------------------- *)
\* a save that writes the new message alone
JSON_chat_append_Overwrite(chat, user_id, user_message, ai_response, chat_type, decision_id, is_visible, t) ==
    [ret |-> 1,
     chat |-> <<[id |-> 1, user_id |-> user_id, decision_id |-> decision_id,
                 chat_type |-> chat_type, user_message |-> user_message,
                 ai_response |-> ai_response, timestamp |-> t,
                 is_visible_to_user |-> is_visible]>>]

\* save_chat_message on the chat file with content chat
JSON_chat_append(chat, user_id, user_message, ai_response, chat_type, decision_id, is_visible, t) ==
    LET cid == Len(chat) + 1 IN
    [ret |-> cid,
     chat |-> Append(chat, [id |-> cid, user_id |-> user_id, decision_id |-> decision_id,
                            chat_type |-> chat_type, user_message |-> user_message,
                            ai_response |-> ai_response, timestamp |-> t,
                            is_visible_to_user |-> is_visible])]

JSON_save_chat_message(user_id, user_message, ai_response, chat_type, decision_id, is_visible, t) ==
    JSON_chat_append(j_chat, user_id, user_message, ai_response, chat_type, decision_id,
                     is_visible, t)

\* list.sort(key=timestamp): ascending and stable
RECURSIVE SortByTimestamp(_)
SortByTimestamp(s) ==
    IF s = <<>> THEN <<>>
    ELSE LET x == s[Len(s)]
             rest == SortByTimestamp(SubSeq(s, 1, Len(s) - 1))
             Before(c) == c.timestamp <= x.timestamp
             After(c) == c.timestamp > x.timestamp
         IN SelectSeq(rest, Before) \o <<x>> \o SelectSeq(rest, After)

\* "if decision_id:" / "if chat_type:" are false for None and for ""
Truthy(x) == x # None /\ x # ""

JSON_get_chat_history_NoTypeFilter(user_id, decision_id, chat_type, include_hidden) ==
    LET Keep(c) == /\ c.user_id = user_id
                   /\ Truthy(decision_id) => c.decision_id = decision_id
                   /\ ~include_hidden => c.is_visible_to_user
    IN SortByTimestamp(SelectSeq(j_chat, Keep))

JSON_get_chat_history(user_id, decision_id, chat_type, include_hidden) ==
    LET Keep(c) == /\ c.user_id = user_id
                   /\ Truthy(decision_id) => c.decision_id = decision_id
                   /\ Truthy(chat_type) => c.chat_type = chat_type
                   /\ ~include_hidden => c.is_visible_to_user
    IN SortByTimestamp(SelectSeq(j_chat, Keep))

JSON_get_chat_history_for_decision_VisibleOnly(user_id, decision_id) ==
    JSON_get_chat_history(user_id, decision_id, None, FALSE)

JSON_get_chat_history_for_decision(user_id, decision_id) ==
    JSON_get_chat_history(user_id, decision_id, None, TRUE)

(* ------------------------ Firestore backend: chat --------------------- *)
\* (the key of the n-th chat document is FireUserId's <<"auto", n>> shape)
\* save_chat_message on the chat collection with content chat
F_chat_append(chat, user_id, user_message, ai_response, chat_type, decision_id, is_visible, t) ==
    LET ref == <<"auto", Cardinality(DOMAIN chat) + 1>> IN
    [ret |-> ref,
     chat |-> SetDoc(chat, ref,
                     [user_id |-> user_id, decision_id |-> decision_id,
                      chat_type |-> chat_type, user_message |-> user_message,
                      ai_response |-> ai_response, timestamp |-> t,
                      is_visible_to_user |-> is_visible])]

F_save_chat_message(user_id, user_message, ai_response, chat_type, decision_id, is_visible, t) ==
    F_chat_append(f_chat, user_id, user_message, ai_response, chat_type, decision_id,
                  is_visible, t)

\* the documents of keys ordered by timestamp ascending, equal timestamps by
\* document key
RECURSIVE F_order_chat(_)
F_order_chat(keys) ==
    IF keys = {} THEN <<>>
    ELSE LET top == CHOOSE k \in keys : \A h \in keys :
                        \/ f_chat[k].timestamp < f_chat[h].timestamp
                        \/ f_chat[k].timestamp = f_chat[h].timestamp /\ k[2] <= h[2]
         IN <<Merge(f_chat[top], [id |-> top])>> \o F_order_chat(keys \ {top})

F_get_chat_history(user_id, decision_id, chat_type, include_hidden) ==
    F_order_chat({k \in DOMAIN f_chat :
                     /\ f_chat[k].user_id = user_id
                     /\ Truthy(decision_id) => f_chat[k].decision_id = decision_id
                     /\ Truthy(chat_type) => f_chat[k].chat_type = chat_type
                     /\ ~include_hidden => f_chat[k].is_visible_to_user = TRUE})

F_get_chat_history_for_decision(user_id, decision_id) ==
    F_get_chat_history(user_id, decision_id, None, TRUE)

(* -------------------------- backend selection ------------------------- *)
\* os.getenv(name, default): the value of the variable, default when unset
Getenv(value, default) == IF value = None THEN default ELSE value

\* x or y
Or(x, y) == IF Truthy(x) THEN x ELSE y

\* The arguments are what the selector reads from its environment:
\* force_json_db, firebase_key_path, google_credentials  the three environment
\*     variables (None: unset);
\* fire_imported  whether firebase_admin could be imported;
\* existing  the paths for which os.path.exists is true;
\* constructed  whether FirestoreDatabaseManager(cred_path) returns (it raises
\*     otherwise, and the selector swallows the exception).
_select_backend_IgnoreFlag(force_json_db, firebase_key_path, google_credentials, fire_imported, existing, constructed) ==
    LET cred_path == Or(firebase_key_path, google_credentials)
    IN IF Truthy(cred_path) /\ fire_imported /\ cred_path \in existing /\ constructed
       THEN "FirestoreDatabaseManager"
       ELSE "JSONDatabaseManager"

_select_backend(force_json_db, firebase_key_path, google_credentials, fire_imported, existing, constructed) ==
    IF Getenv(force_json_db, "0") = "1" THEN "JSONDatabaseManager"
    ELSE LET cred_path == Or(firebase_key_path, google_credentials)
         IN IF Truthy(cred_path) /\ fire_imported /\ cred_path \in existing /\ constructed
            THEN "FirestoreDatabaseManager"
            ELSE "JSONDatabaseManager"

(* ------------------------------- clock -------------------------------- *)
\* datetime.utcnow() / SERVER_TIMESTAMP: the clock never runs backwards and
\* two consecutive writes may fall in the same tick
\* (Ticks: by how much the clock may have advanced since the last write)
Stamp(t, Ticks) == t \in {now + d : d \in Ticks} /\ t <= MaxClock /\ now' = t

(* --------------------- the decision recorder -------------------------- *)
\* (class DecisionRecorder of decision_recorder.py, described in section 4.3
\* of the specification)
StringFields == {"description", "goal", "final_choice", "reasoning"}
SequenceFields == {"constraints", "alternatives"}
RequiredFields == StringFields \cup SequenceFields

EmptyData ==
    [description |-> "", goal |-> "", constraints |-> <<>>, alternatives |-> <<>>,
     final_choice |-> "", reasoning |-> "", expected_outcome |-> ""]
PartialData == [EmptyData EXCEPT !.description = "Move cities"]
CompleteData ==
    [description |-> "Move cities", goal |-> "Better job", constraints |-> <<"budget">>,
     alternatives |-> <<"stay">>, final_choice |-> "move", reasoning |-> "career",
     expected_outcome |-> ""]

\* the field sets a recorder goes through in the conversations modelled
CollectedDatas == {EmptyData, PartialData, CompleteData}

\* every way the seven fields can be empty or filled
FieldSets ==
    [description : {"", "Move cities"}, goal : {"", "Better job"},
     constraints : {<<>>, <<"budget">>}, alternatives : {<<>>, <<"stay">>},
     final_choice : {"", "move"}, reasoning : {"", "career"},
     expected_outcome : {"", "a raise"}]

get_missing_fields(data) ==
    {k \in StringFields : data[k] = ""} \cup {k \in SequenceFields : data[k] = <<>>}

\* a completeness test that looks at the string fields only
is_decision_complete_StringsOnly(data) == get_missing_fields(data) \cap StringFields = {}

is_decision_complete(data) == get_missing_fields(data) = {}

\* data2 has every field filled that data1 has filled
Accumulates(data1, data2) == get_missing_fields(data2) \subseteq get_missing_fields(data1)

\* DecisionRecorder(language=...)
DecisionRecorder(language) == [language |-> language, data |-> EmptyData]

\* recorder.start_conversation(): the opening prompt in the recorder's language
start_conversation(recorder) == "opening-" \o recorder.language

(* -------------------------- language detection ------------------------ *)
\* A text is the sequence of its code points.
Ascii(n) == [i \in 1..n |-> 97]

\* the utterances typed on the record page: a sentence of 14 ASCII
\* characters, the English save command, and the Hindi save command
\* U+092A U+0942 U+0930 U+093E
Utterances ==
    {[text |-> "I want to move", chars |-> Ascii(14)],
     [text |-> "save", chars |-> Ascii(4)],
     [text |-> "U+092A U+0942 U+0930 U+093E", chars |-> <<2346, 2370, 2352, 2366>>]}

\* len(devanagari_pattern.findall(text)): the characters in U+0900..U+097F
devanagari_count(text) ==
    Cardinality({i \in 1..Len(text) : text[i] >= 2304 /\ text[i] <= 2431})

\* a detector that takes a share of exactly 20% for Hindi
detect_language_AtLeast(text) ==
    IF text = <<>> THEN "en"
    ELSE IF 5 * devanagari_count(text) >= Len(text) THEN "hi" ELSE "en"

\* devanagari_count > len(text) * 0.2 (the product is never below a fifth of
\* the length in floating point, so the test is 5 * count > length)
detect_language(text) ==
    IF text = <<>> THEN "en"
    ELSE IF 5 * devanagari_count(text) > Len(text) THEN "hi" ELSE "en"

\* user_input.lower().strip() equals or starts with one of save_commands
is_save_command(u) == u.text \in {"save", "U+092A U+0942 U+0930 U+093E"}

(* ----------------------------- record page ---------------------------- *)
\* the user the session belongs to
PageUser == 1

Message(role, content) == [role |-> role, content |-> content]

\* lines 573-601: the session keys are initialised, a new conversation gets
\* its opening prompt, and from four messages on the recorder re-reads the
\* transcript, which leaves its fields as they are or fills more of them
\* (extracted: the fields after that pass)
Prelude(extracted) ==
    LET r0 == IF decision_recorder = Nothing THEN DecisionRecorder("en")
              ELSE decision_recorder[1]
        fresh == ~recorder_started /\ Len(decision_chat) = 0
        chat == IF fresh THEN <<Message("assistant", start_conversation(r0))>>
                ELSE decision_chat
        r1 == IF Len(chat) >= 4 THEN [r0 EXCEPT !.data = extracted] ELSE r0
    IN [recorder |-> r1, chat |-> chat, started |-> (fresh \/ recorder_started)]

Preludes ==
    LET cur == IF decision_recorder = Nothing THEN EmptyData ELSE decision_recorder[1].data
    IN {Prelude(x) : x \in {d \in CollectedDatas : Accumulates(cur, d)}}

\* the dictionary the three save paths build from collected_data
decision_data_of(collected_data) ==
    [title |-> collected_data.description,
     description |-> collected_data.description,
     goal |-> collected_data.goal,
     constraints |-> collected_data.constraints,
     alternatives |-> collected_data.alternatives,
     final_choice |-> collected_data.final_choice,
     reasoning |-> collected_data.reasoning,
     expected_outcome |-> collected_data.expected_outcome,
     memory_layer |-> "private",
     outcome_status |-> "pending"]

\* lines 707-719 and 916-928: every user message whose successor is an
\* assistant message, with that successor
RECURSIVE PairsFrom(_, _)
PairsFrom(chat, i) ==
    IF i > Len(chat) THEN <<>>
    ELSE IF chat[i].role = "user" /\ i + 1 <= Len(chat) /\ chat[i + 1].role = "assistant"
         THEN <<<<chat[i].content, chat[i + 1].content>>>> \o PairsFrom(chat, i + 1)
         ELSE PairsFrom(chat, i + 1)

\* a pairing that starts behind the first exchange
pairs_by_position_SkipFirst(chat) == PairsFrom(chat, 4)

pairs_by_position(chat) == PairsFrom(chat, 1)

\* lines 1035-1046: every user message after the first message, with the
\* successor of the first message equal to it (list.index)
RECURSIVE PairsIndexFrom(_, _)
PairsIndexFrom(chat, i) ==
    IF i > Len(chat) THEN <<>>
    ELSE IF chat[i].role = "user"
         THEN LET idx == FirstIdx({k \in 1..Len(chat) : chat[k] = chat[i]})
              IN IF idx + 1 <= Len(chat)
                 THEN <<<<chat[i].content, chat[idx + 1].content>>>>
                          \o PairsIndexFrom(chat, i + 1)
                 ELSE PairsIndexFrom(chat, i + 1)
         ELSE PairsIndexFrom(chat, i + 1)

pairs_by_index(chat) == PairsIndexFrom(chat, 2)

\* db.save_chat_message(user_id, user, assistant, chat_type="decision_recording",
\* decision_id=decision_id) for every pair, in order
RECURSIVE JSON_save_pairs(_, _, _, _)
JSON_save_pairs(chat, pairs, decision_id, t) ==
    IF pairs = <<>> THEN chat
    ELSE JSON_save_pairs(
             JSON_chat_append(chat, PageUser, pairs[1][1], pairs[1][2],
                              "decision_recording", decision_id, TRUE, t).chat,
             Tail(pairs), decision_id, t)

RECURSIVE F_save_pairs(_, _, _, _)
F_save_pairs(chat, pairs, decision_id, t) ==
    IF pairs = <<>> THEN chat
    ELSE F_save_pairs(
             F_chat_append(chat, FireUserId(PageUser), pairs[1][1], pairs[1][2],
                           "decision_recording", decision_id, TRUE, t).chat,
             Tail(pairs), decision_id, t)

\* line 859: the recorder held in the session is bound to another language
\* than the one detected in the utterance
language_changed_Never(recorder, detected_lang) == FALSE

language_changed(recorder, detected_lang) == recorder.language # detected_lang

\* line 877: the typed save command persists when is_complete holds
save_command_persists_Always(is_complete) == TRUE

save_command_persists(is_complete) == is_complete

(* ------------------------------ actions ------------------------------- *)
\* Each action is one interface call made on both backends.  Its parameters
\* are the sets its arguments are drawn from in the specification at hand:
\* O the owners (the JSON backend gets n, the Firestore backend the key
\* FireUserId(n)), Ticks the clock advance.
Init ==
    /\ j_users = <<>> /\ j_prefs = <<>> /\ j_decisions = <<>> /\ j_chat = <<>>
    /\ f_users = <<>> /\ f_prefs = <<>> /\ f_decisions = <<>> /\ f_chat = <<>>
    /\ now = 0 /\ uuid_n = 0 /\ cur_pw = <<>>
    /\ db = "unloaded"
    /\ current_page = "landing"
    /\ decision_recorder = Nothing /\ recorder_started = FALSE /\ decision_chat = <<>>
    /\ calls = NoCalls
    /\ ret = [op |-> "init"]

CreateUser(EmailInputs, PasswordInputs, Ticks) ==
    \E email \in EmailInputs, password \in PasswordInputs, full_name \in FullNames,
       t \in 0..MaxClock :
        /\ Len(j_users) < MaxUsers \/ JSON_email_exists(email)
        /\ Stamp(t, Ticks)
        /\ LET j == JSON_create_user(email, password, full_name, t)
               f == F_create_user(email, password, full_name, t)
           IN /\ j_users' = j.users /\ j_prefs' = j.prefs
              /\ f_users' = f.users /\ f_prefs' = f.prefs
              /\ cur_pw' = IF j.ret THEN Append(cur_pw, password) ELSE cur_pw
              /\ ret' = [op |-> "create_user", email |-> email, password |-> password,
                         j |-> j.ret, f |-> f.ret]
        /\ UNCHANGED <<appVars, decisionVars, chatVars>>

\* create_user stopped between its two writes: the user record is stored, the
\* default preferences record is not, and the caller gets no result
CreateUserInterrupted(EmailInputs, PasswordInputs, Ticks) ==
    \E email \in EmailInputs, password \in PasswordInputs, full_name \in FullNames,
       t \in 0..MaxClock :
        /\ Len(j_users) < MaxUsers
        /\ Stamp(t, Ticks)
        /\ LET j == JSON_create_user(email, password, full_name, t)
               f == F_create_user(email, password, full_name, t)
           IN /\ j.ret /\ f.ret
              /\ j_users' = j.users
              /\ f_users' = f.users
              /\ cur_pw' = Append(cur_pw, password)
              /\ ret' = [op |-> "create_user_interrupted", email |-> email,
                         password |-> password]
        /\ UNCHANGED <<appVars, j_prefs, f_prefs, decisionVars, chatVars>>

AuthenticateUser(EmailInputs, PasswordInputs) ==
    \E email \in EmailInputs, password \in PasswordInputs :
        /\ ret' = [op |-> "authenticate_user", email |-> email, password |-> password,
                   j |-> JSON_authenticate_user(email, password),
                   f |-> F_authenticate_user(email, password)]
        /\ UNCHANGED <<appVars, userVars, decisionVars, chatVars, now>>

UpdateUserPassword ==
    \E n \in OwnerIdx, new_password \in Passwords :
        LET j == JSON_update_user_password(n, new_password)
            f == F_update_user_password(FireUserId(n), new_password)
        IN /\ j_users' = j.users
           /\ f_users' = f.users
           /\ cur_pw' = IF n <= Len(cur_pw) THEN [cur_pw EXCEPT ![n] = new_password]
                        ELSE cur_pw
           /\ ret' = [op |-> "update_user_password", n |-> n, password |-> new_password,
                      old |-> IF n <= Len(cur_pw) THEN cur_pw[n] ELSE None,
                      j |-> j.ret, f |-> f.ret]
           /\ UNCHANGED <<appVars, j_prefs, f_prefs, decisionVars, chatVars, now>>

GetUser ==
    \E n \in OwnerIdx :
        /\ ret' = [op |-> "get_user", n |-> n,
                   j |-> JSON_get_user(n), f |-> F_get_user(FireUserId(n))]
        /\ UNCHANGED <<appVars, userVars, decisionVars, chatVars, now>>

GetUserByEmail(EmailInputs) ==
    \E email \in EmailInputs :
        /\ ret' = [op |-> "get_user_by_email", email |-> email,
                   j |-> JSON_get_user_by_email(email), f |-> F_get_user_by_email(email)]
        /\ UNCHANGED <<appVars, userVars, decisionVars, chatVars, now>>

GetUserPreferences(O) ==
    \E n \in O :
        /\ ret' = [op |-> "get_user_preferences", n |-> n,
                   j |-> JSON_get_user_preferences(n),
                   f |-> F_get_user_preferences(FireUserId(n))]
        /\ UNCHANGED <<appVars, userVars, decisionVars, chatVars, now>>

UpdateUserPreferences(O) ==
    \E n \in O, preferences \in PrefDicts :
        LET j == JSON_update_user_preferences(n, preferences)
            f == F_update_user_preferences(FireUserId(n), preferences)
        IN /\ j_prefs' = j.prefs
           /\ f_prefs' = f.prefs
           /\ ret' = [op |-> "update_user_preferences", n |-> n, preferences |-> preferences,
                      j |-> j.ret, f |-> f.ret]
           /\ UNCHANGED <<appVars, j_users, f_users, cur_pw, decisionVars, chatVars, now>>

\* the ids stored or returned so far: the caller-chosen ones and the
\* generated ones
StoredIds == DecisionIds \cup {"uuid-" \o ToString(n) : n \in 1..uuid_n}

\* the decision dictionaries a caller may pass: an id that is absent, empty,
\* caller-chosen or returned by an earlier save, with one of two bodies (the
\* second one names an outcome status, the first one does not)
DecisionBodies ==
    {[description |-> "Move cities"],
     [description |-> "Stay", outcome_status |-> "pending"]}

DecisionDicts ==
    LET ids == {[x \in {} |-> None]} \cup {[id |-> i] : i \in {""} \cup StoredIds}
    IN {Merge(i, b) : i \in ids, b \in DecisionBodies}

SaveDecision(O, Ticks) ==
    \E n \in O, t \in 0..MaxClock :
      \E decision_data \in DecisionDicts :
        LET gen == IdOrGen(decision_data) = _gen_id
            j == JSON_save_decision(n, decision_data, t)
            f == F_save_decision(FireUserId(n), decision_data, t)
        IN /\ gen => uuid_n < MaxGen
           /\ Len(j.decisions) <= MaxDecisions
           /\ Stamp(t, Ticks)
           /\ j_decisions' = j.decisions
           /\ f_decisions' = f.decisions
           /\ uuid_n' = IF gen THEN uuid_n + 1 ELSE uuid_n
           /\ ret' = [op |-> "save_decision", n |-> n, data |-> decision_data,
                      existed |-> JSON_find_decision(n, IdOrGen(decision_data)) # 0,
                      j |-> j.ret, f |-> f.ret]
           /\ UNCHANGED <<appVars, userVars, chatVars>>

GetDecision(O) ==
    \E n \in O, decision_id \in StoredIds :
        /\ ret' = [op |-> "get_decision", n |-> n, id |-> decision_id,
                   j |-> JSON_get_decision(n, decision_id),
                   f |-> F_get_decision(FireUserId(n), decision_id)]
        /\ UNCHANGED <<appVars, userVars, decisionVars, chatVars, now>>

Limits == {Nothing, Some(0), Some(1)}

GetUserDecisions(O, LimitInputs) ==
    \E n \in O, limit \in LimitInputs :
        /\ ret' = [op |-> "get_user_decisions", n |-> n, limit |-> limit,
                   j |-> JSON_get_user_decisions(n, limit),
                   f |-> F_get_user_decisions(FireUserId(n), limit)]
        /\ UNCHANGED <<appVars, userVars, decisionVars, chatVars, now>>

DeleteDecision(O) ==
    \E n \in O, decision_id \in StoredIds :
        LET j == JSON_delete_decision(n, decision_id)
            f == F_delete_decision(FireUserId(n), decision_id)
        IN /\ j_decisions' = j.decisions
           /\ f_decisions' = f.decisions
           /\ ret' = [op |-> "delete_decision", n |-> n, id |-> decision_id,
                      j |-> j.ret, f |-> f.ret]
           /\ UNCHANGED <<appVars, userVars, uuid_n, chatVars, now>>

ChatTypes == {"decision_recording"}
UserMessages == {"hello"}
AiResponses == {"tell me more"}

\* the keyword arguments of save_chat_message: every combination of a chat
\* type of Types, a decision id of Ids and a visibility
ChatArgs(Types, Ids) == [chat_type : Types, decision_id : Ids, is_visible : BOOLEAN]

\* (Args: the keyword arguments a caller may pass; Cap: how many messages the
\* specification at hand lets the log grow to)
SaveChatMessage(O, Ticks, Args, Cap) ==
    \E n \in O, user_message \in UserMessages, ai_response \in AiResponses,
       kw \in Args, t \in 0..MaxClock :
        LET j == JSON_save_chat_message(n, user_message, ai_response, kw.chat_type,
                                        kw.decision_id, kw.is_visible, t)
            f == F_save_chat_message(FireUserId(n), user_message, ai_response,
                                     kw.chat_type, kw.decision_id, kw.is_visible, t)
        IN /\ Len(j_chat) < Cap
           /\ Stamp(t, Ticks)
           /\ j_chat' = j.chat
           /\ f_chat' = f.chat
           /\ ret' = [op |-> "save_chat_message", n |-> n, decision_id |-> kw.decision_id,
                      is_visible |-> kw.is_visible, j |-> j.ret, f |-> f.ret]
           /\ UNCHANGED <<appVars, userVars, decisionVars>>

GetChatHistory(O, Ids, Types) ==
    \E n \in O, decision_id \in Ids, chat_type \in Types,
       include_hidden \in BOOLEAN :
        /\ ret' = [op |-> "get_chat_history", n |-> n, decision_id |-> decision_id,
                   chat_type |-> chat_type, include_hidden |-> include_hidden,
                   j |-> JSON_get_chat_history(n, decision_id, chat_type, include_hidden),
                   f |-> F_get_chat_history(FireUserId(n), decision_id, chat_type,
                                            include_hidden)]
        /\ UNCHANGED <<appVars, userVars, decisionVars, chatVars, now>>

GetChatHistoryForDecision(O, Ids) ==
    \E n \in O, decision_id \in Ids :
        /\ ret' = [op |-> "get_chat_history_for_decision", n |-> n,
                   decision_id |-> decision_id,
                   j |-> JSON_get_chat_history_for_decision(n, decision_id),
                   f |-> F_get_chat_history_for_decision(FireUserId(n), decision_id)]
        /\ UNCHANGED <<appVars, userVars, decisionVars, chatVars, now>>

\* what the environment of the process may hold
FlagValues == {None, "0", "1"}
CredPaths == {"key.json", "adc.json"}
PathValues == {None, ""} \cup CredPaths

\* the first import of the database module: its body runs and binds db
ImportDatabase ==
    \E force_json_db \in FlagValues, firebase_key_path \in PathValues,
       google_credentials \in PathValues, fire_imported \in BOOLEAN,
       existing \in SUBSET CredPaths, constructed \in BOOLEAN :
        /\ db = "unloaded"
        /\ db' = _select_backend(force_json_db, firebase_key_path, google_credentials,
                                 fire_imported, existing, constructed)
        /\ ret' = [op |-> "select_backend", force_json_db |-> force_json_db,
                   firebase_key_path |-> firebase_key_path,
                   google_credentials |-> google_credentials,
                   fire_imported |-> fire_imported, existing |-> existing,
                   constructed |-> constructed]
        /\ UNCHANGED <<pageVars, calls, userVars, decisionVars, chatVars, now>>

\* a rerun of the application script: "from database import db" finds the
\* module loaded and binds the same handle
RerunScript ==
    /\ db # "unloaded"
    /\ ret' = [op |-> "rerun", db |-> db]
    /\ UNCHANGED <<appVars, userVars, decisionVars, chatVars, now>>

\* the process from start: the module is imported, the pages run again and
\* again and read through the handle
NextSelect ==
    \/ ImportDatabase
    \/ RerunScript
    \/ GetUser

SpecSelect == Init /\ [][NextSelect]_vars

(* ----------------------- record page: interactions -------------------- *)
\* One action is one run of render_record_decision_page with the widget event
\* that caused it.  All writes of a run fall into one clock tick.
AiReplies == {"Tell me more", "Why?"}

\* the missing-fields reply of line 962
MissingText(missing) == "I still need: " \o ToString(missing)

\* the session state a run leaves behind
SessionBecomes(recorder, started, chat, page) ==
    /\ decision_recorder' = recorder
    /\ recorder_started' = started
    /\ decision_chat' = chat
    /\ current_page' = page

\* lines 729-732, 943-946: the session keys are cleared
SessionCleared(page) == SessionBecomes(Nothing, FALSE, <<>>, page)

\* db.save_decision(user_id, decision_data) and one db.save_chat_message per
\* pair, linked to the id returned
PersistDecision(collected_data, pairs) ==
    LET decision_data == decision_data_of(collected_data)
        j == JSON_save_decision(PageUser, decision_data, now)
        f == F_save_decision(FireUserId(PageUser), decision_data, now)
    IN /\ uuid_n < MaxSaves
       /\ Len(j_chat) + Len(pairs) <= MaxPageChat
       /\ collected_data.description # ""
       /\ j_decisions' = j.decisions
       /\ f_decisions' = f.decisions
       /\ j_chat' = JSON_save_pairs(j_chat, pairs, j.ret, now)
       /\ f_chat' = F_save_pairs(f_chat, pairs, f.ret, now)
       /\ uuid_n' = uuid_n + 1

\* the landing page's button to the record page (line 457)
OpenRecordPage ==
    /\ current_page = "landing"
    /\ current_page' = "record_decision"
    /\ ret' = [op |-> "open_record_page"]
    /\ UNCHANGED <<db, calls, decision_recorder, recorder_started, decision_chat,
                   userVars, decisionVars, chatVars, now>>

\* a run without an event (after st.rerun())
RenderRecordPage ==
    \E p \in Preludes :
        /\ current_page = "record_decision"
        /\ SessionBecomes(Some(p.recorder), p.started, p.chat, "record_decision")
        /\ ret' = [op |-> "render"]
        /\ UNCHANGED <<db, calls, userVars, decisionVars, chatVars, now>>

\* "New" / "New Chat" (lines 661-665, 1008-1012)
ClickNew ==
    /\ current_page = "record_decision"
    /\ SessionCleared("record_decision")
    /\ ret' = [op |-> "new"]
    /\ UNCHANGED <<db, calls, userVars, decisionVars, chatVars, now>>

\* "Home" / "Back Home" (lines 648-650, 1003-1005)
ClickHome ==
    \E p \in Preludes :
        /\ current_page = "record_decision"
        /\ SessionBecomes(Some(p.recorder), p.started, p.chat, "landing")
        /\ ret' = [op |-> "home"]
        /\ UNCHANGED <<db, calls, userVars, decisionVars, chatVars, now>>

\* the Save button of the top bar (lines 667-742)
ClickSaveTop ==
    \E p \in Preludes :
        LET collected_data == p.recorder.data
            is_complete == is_decision_complete(p.recorder.data)
        IN /\ current_page = "record_decision"
           /\ is_complete
           /\ PersistDecision(collected_data, pairs_by_position(p.chat))
           /\ SessionCleared("landing")
           /\ ret' = [op |-> "page_save", path |-> "top", complete |-> is_complete,
                      collected |-> collected_data, transcript |-> p.chat, id |-> _gen_id]
           /\ UNCHANGED <<db, calls, userVars, now>>

\* the Save button below the conversation (lines 1014-1069)
ClickSaveBottom ==
    \E p \in Preludes :
        LET collected_data == p.recorder.data
            is_complete == is_decision_complete(p.recorder.data)
        IN /\ current_page = "record_decision"
           /\ is_complete
           /\ PersistDecision(collected_data, pairs_by_index(p.chat))
           /\ SessionBecomes(Some(p.recorder), p.started, p.chat, "landing")
           /\ ret' = [op |-> "page_save", path |-> "bottom", complete |-> is_complete,
                      collected |-> collected_data, transcript |-> p.chat, id |-> _gen_id]
           /\ UNCHANGED <<db, calls, userVars, now>>

\* a typed or spoken utterance (lines 852-994); Replies: the replies the
\* language model may give
TypeUtterance(Replies) ==
    \E p \in Preludes, u \in Utterances, ai_response \in Replies,
       learned \in CollectedDatas :
        LET recorder == p.recorder
            collected_data == recorder.data
            missing == get_missing_fields(recorder.data)
            is_complete == is_decision_complete(recorder.data)
            detected_lang == detect_language(u.chars)
            switched == language_changed(recorder, detected_lang)
            \* st.session_state.decision_recorder / decision_chat after line 864
            s_recorder == IF switched THEN DecisionRecorder(detected_lang) ELSE recorder
            s_chat == IF switched
                      THEN <<Message("assistant", start_conversation(s_recorder))>>
                      ELSE p.chat
        IN /\ current_page = "record_decision"
           /\ IF is_save_command(u)
              THEN IF save_command_persists(is_complete)
                   THEN /\ PersistDecision(collected_data, pairs_by_position(s_chat))
                        /\ SessionCleared("landing")
                        /\ ret' = [op |-> "page_save", path |-> "typed",
                                   complete |-> is_complete, collected |-> collected_data,
                                   transcript |-> s_chat, id |-> _gen_id,
                                   text |-> u.text, switched |-> switched]
                        /\ UNCHANGED <<db, calls, userVars, now>>
                   ELSE /\ Len(s_chat) + 2 <= 1 + 2 * MaxExchanges
                        /\ SessionBecomes(Some(s_recorder), TRUE,
                               s_chat \o <<Message("user", u.text),
                                           Message("assistant", MissingText(missing))>>,
                               "record_decision")
                        /\ ret' = [op |-> "save_refused", text |-> u.text,
                                   complete |-> is_complete, switched |-> switched,
                                   recorder |-> s_recorder, transcript |-> s_chat,
                                   reply |-> MissingText(missing)]
                        /\ UNCHANGED <<db, calls, userVars, decisionVars, chatVars, now>>
              ELSE \* recorder.get_ai_response(user_input) fills fields of the
                   \* recorder the run started with
                   /\ Accumulates(collected_data, learned)
                   /\ Len(s_chat) + 2 <= 1 + 2 * MaxExchanges
                   /\ Len(j_chat) < MaxPageChat
                   /\ SessionBecomes(
                          Some(IF switched THEN s_recorder
                               ELSE [recorder EXCEPT !.data = learned]),
                          TRUE,
                          s_chat \o <<Message("user", u.text),
                                      Message("assistant", ai_response)>>,
                          "record_decision")
                   /\ j_chat' = JSON_save_chat_message(PageUser, u.text, ai_response,
                                    "decision_recording", None, TRUE, now).chat
                   /\ f_chat' = F_save_chat_message(FireUserId(PageUser), u.text,
                                    ai_response, "decision_recording", None, TRUE, now).chat
                   /\ ret' = [op |-> "utterance", text |-> u.text, reply |-> ai_response,
                              switched |-> switched]
                   /\ UNCHANGED <<db, calls, userVars, decisionVars, now>>

NextRecord ==
    \/ OpenRecordPage
    \/ RenderRecordPage
    \/ ClickNew
    \/ ClickHome
    \/ ClickSaveTop
    \/ ClickSaveBottom
    \/ TypeUtterance(AiReplies)

SpecRecord == Init /\ [][NextRecord]_vars

\* the same interactions with a language model that always gives the same
\* reply
NextRecordOneReply ==
    \/ OpenRecordPage
    \/ RenderRecordPage
    \/ ClickNew
    \/ ClickHome
    \/ ClickSaveTop
    \/ ClickSaveBottom
    \/ TypeUtterance({"Tell me more"})

SpecRecordOneReply == Init /\ [][NextRecordOneReply]_vars

\* the recorder's status as the record page reads it (lines 599-601), for a
\* recorder holding any field set
InitRecorder ==
    /\ j_users = <<>> /\ j_prefs = <<>> /\ j_decisions = <<>> /\ j_chat = <<>>
    /\ f_users = <<>> /\ f_prefs = <<>> /\ f_decisions = <<>> /\ f_chat = <<>>
    /\ now = 0 /\ uuid_n = 0 /\ cur_pw = <<>>
    /\ db = "unloaded"
    /\ current_page = "record_decision"
    /\ decision_recorder \in {Some([language |-> "en", data |-> d]) : d \in FieldSets}
    /\ recorder_started = TRUE
    /\ decision_chat = <<Message("assistant", start_conversation(DecisionRecorder("en")))>>
    /\ calls = NoCalls
    /\ ret = [op |-> "init"]

ReadRecorderStatus ==
    LET recorder == decision_recorder[1]
    IN /\ ret' = [op |-> "recorder_status",
                  collected |-> recorder.data,
                  missing |-> get_missing_fields(recorder.data),
                  complete |-> is_decision_complete(recorder.data)]
       /\ UNCHANGED <<appVars, userVars, decisionVars, chatVars, now>>

NextCompleteness == ReadRecorderStatus

SpecCompleteness == InitRecorder /\ [][NextCompleteness]_vars

\* language detection on every text of at most MaxText characters over the
\* code points next to the ends of the Devanagari block and an ASCII letter
CodePoints == {97, 2303, 2304, 2431, 2432}

RECURSIVE TextsOfLength(_)
TextsOfLength(n) ==
    IF n = 0 THEN {<<>>}
    ELSE {Append(t, c) : t \in TextsOfLength(n - 1), c \in CodePoints}

Texts == UNION {TextsOfLength(n) : n \in 0..MaxText}

\* a call of detect_language is pending for each of the texts
InitDetect ==
    /\ j_users = <<>> /\ j_prefs = <<>> /\ j_decisions = <<>> /\ j_chat = <<>>
    /\ f_users = <<>> /\ f_prefs = <<>> /\ f_decisions = <<>> /\ f_chat = <<>>
    /\ now = 0 /\ uuid_n = 0 /\ cur_pw = <<>>
    /\ db = "unloaded"
    /\ current_page = "landing"
    /\ decision_recorder = Nothing /\ recorder_started = FALSE /\ decision_chat = <<>>
    /\ calls = NoCalls
    /\ ret \in {[op |-> "call_detect_language", text |-> t] : t \in Texts}

DetectLanguage ==
    /\ ret.op = "call_detect_language"
    /\ ret' = [op |-> "detect_language", text |-> ret.text,
               result |-> detect_language(ret.text)]
    /\ UNCHANGED <<appVars, userVars, decisionVars, chatVars, now>>

NextDetect == DetectLanguage

SpecDetect == InitDetect /\ [][NextDetect]_vars

(* ------------- create_user in processes sharing the files ------------- *)
\* JSONDatabaseManager.create_user run by several processes on the same data
\* directory.  A step is one call of _load or _save with the computation that
\* follows it; the steps of different calls interleave freely.
\* line 62: any(u["email"] == email for u in users)
email_taken_Never(users, email) == FALSE

email_taken(users, email) == \E i \in 1..Len(users) : users[i].email = email

InProgress(p) == calls[p].pc \notin {"idle", "done"}

\* lines 61-64: users = self._load("users"), the test and uid
CreateUserLoad(p) ==
    \E email \in Emails :
        LET users == j_users
            overlapped == \E q \in Procs \ {p} : InProgress(q)
        IN /\ calls[p].pc = "idle"
           /\ calls' = [calls EXCEPT ![p] =
                  IF email_taken(users, email)
                  THEN [IdleCall EXCEPT !.pc = "done", !.email = email,
                                        !.result = Some(FALSE),
                                        !.overlapped = overlapped]
                  ELSE [IdleCall EXCEPT !.pc = "checked", !.email = email,
                                        !.users = users, !.uid = Len(users) + 1,
                                        !.overlapped = overlapped]]
           /\ ret' = [op |-> "create_user.load_users", n |-> p]
           /\ UNCHANGED <<db, pageVars, userVars, decisionVars, chatVars, now>>

\* lines 65-72: users.append({...}); self._save("users", users)
CreateUserSaveUsers(p) ==
    LET c == calls[p]
    IN /\ c.pc = "checked"
       /\ j_users' = Append(c.users, [id |-> c.uid, email |-> c.email,
                                      password_hash |-> _hash_password("pw1"),
                                      full_name |-> "Ann", created_at |-> now])
       /\ calls' = [calls EXCEPT ![p] = [c EXCEPT !.pc = "saved", !.users = <<>>]]
       /\ ret' = [op |-> "create_user.save_users", n |-> p]
       /\ UNCHANGED <<db, pageVars, j_prefs, f_users, f_prefs, cur_pw,
                      decisionVars, chatVars, now>>

\* line 74: prefs = self._load("preferences")
CreateUserLoadPrefs(p) ==
    LET c == calls[p]
    IN /\ c.pc = "saved"
       /\ calls' = [calls EXCEPT ![p] = [c EXCEPT !.pc = "loaded_prefs", !.prefs = j_prefs]]
       /\ ret' = [op |-> "create_user.load_prefs", n |-> p]
       /\ UNCHANGED <<db, pageVars, userVars, decisionVars, chatVars, now>>

\* lines 75-77: prefs.append({...}); self._save("preferences", prefs); return True
CreateUserSavePrefs(p) ==
    LET c == calls[p]
    IN /\ c.pc = "loaded_prefs"
       /\ j_prefs' = Append(c.prefs, [user_id |-> c.uid, share_data_with_ai |-> FALSE,
                                      view_chat_history |-> TRUE])
       /\ calls' = [calls EXCEPT ![p] = [c EXCEPT !.pc = "done", !.prefs = <<>>,
                                                  !.result = Some(TRUE)]]
       /\ ret' = [op |-> "create_user.save_prefs", n |-> p]
       /\ UNCHANGED <<db, pageVars, j_users, f_users, f_prefs, cur_pw,
                      decisionVars, chatVars, now>>

NextRace ==
    \E p \in Procs :
        \/ CreateUserLoad(p)
        \/ CreateUserSaveUsers(p)
        \/ CreateUserLoadPrefs(p)
        \/ CreateUserSavePrefs(p)

SpecRace == Init /\ [][NextRace]_vars

\* decision operations of two owners; all writes fall into one clock tick
NextDecisions ==
    \/ SaveDecision(DecisionOwners, {0})
    \/ GetDecision(DecisionOwners)
    \/ GetUserDecisions(DecisionOwners, {Nothing})
    \/ DeleteDecision(DecisionOwners)

SpecDecisions == Init /\ [][NextDecisions]_vars

\* chat operations of two owners: messages of two chat types, linked to one
\* of two decisions or to none, shown or hidden; two writes may fall into
\* the same clock tick
ChatOwners == {1, 2}
ChatLogArgs ==
    {[chat_type |-> "decision_recording", decision_id |-> "d1", is_visible |-> TRUE],
     [chat_type |-> "decision_recording", decision_id |-> "d1", is_visible |-> FALSE],
     [chat_type |-> "general", decision_id |-> "d2", is_visible |-> TRUE],
     [chat_type |-> "general", decision_id |-> None, is_visible |-> FALSE]}

NextChat ==
    \/ SaveChatMessage(ChatOwners, {0, 1}, ChatLogArgs, MaxChatLog)
    \/ GetChatHistory(ChatOwners, {None, "d1"}, {None, "decision_recording"})
    \/ GetChatHistoryForDecision(ChatOwners, {"d1"})

SpecChat == Init /\ [][NextChat]_vars

\* decisions saved and deleted by one owner while that owner's chat
\* messages, linked to decision "d1" or to none, accumulate
NextChatDelete ==
    \/ SaveDecision({1}, {0})
    \/ DeleteDecision({1})
    \/ SaveChatMessage({1}, {0}, ChatArgs(ChatTypes, {None} \cup DecisionIds), MaxChatLog)
    \/ GetChatHistoryForDecision({1}, DecisionIds)

SpecChatDelete == Init /\ [][NextChatDelete]_vars

\* account operations: sign-up, login, password change
NextAuth ==
    \/ CreateUser(Emails, Passwords, {0, 1})
    \/ AuthenticateUser(Emails, Passwords)
    \/ UpdateUserPassword
    \/ GetUser
    \/ GetUserByEmail(Emails)

SpecAuth == Init /\ [][NextAuth]_vars

\* preference operations, with sign-up (which writes the default record)
NextPrefs ==
    \/ CreateUser(Emails, {"pw1"}, {0})
    \/ GetUserPreferences(OwnerIdx)
    \/ UpdateUserPreferences(OwnerIdx)

SpecPrefs == Init /\ [][NextPrefs]_vars

\* preference operations when a sign-up may stop between its two writes; the
\* first user changes preferences, every user reads them
NextOrphan ==
    \/ CreateUser(Emails, {"pw1"}, {0})
    \/ CreateUserInterrupted(Emails, {"pw1"}, {0})
    \/ GetUserPreferences(OwnerIdx)
    \/ UpdateUserPreferences({1})

SpecOrphan == Init /\ [][NextOrphan]_vars

\* every interface operation, called as the application calls them: a user
\* signs up and logs in, and the session then passes that user's id as owner;
\* the clock advances between two writes, so that no two timestamps are equal
SessionOwners == {n \in OwnerIdx : n <= Len(j_users)}

Next ==
    \/ CreateUser({"a@x.com"}, {"pw1"}, {1})
    \/ AuthenticateUser({"a@x.com"}, Passwords)
    \/ SaveDecision(SessionOwners, {1})
    \/ GetDecision(SessionOwners)
    \/ GetUserDecisions(SessionOwners, Limits)
    \/ DeleteDecision(SessionOwners)
    \/ SaveChatMessage(SessionOwners, {1},
                       ChatArgs(ChatTypes, {None} \cup DecisionIds), MaxChat)
    \/ GetChatHistory(SessionOwners, {None} \cup DecisionIds, {None} \cup ChatTypes)
    \/ GetUserPreferences(SessionOwners)
    \/ UpdateUserPreferences(SessionOwners)

Spec == Init /\ [][Next]_vars

\* the operations that write the users file and the chat file: sign-ups
\* with three emails, password changes, and chat messages of the users
\* signed up
IdEmails == Emails \cup {"b@x.com"}

NextIds ==
    \/ CreateUser(IdEmails, {"pw1"}, {0})
    \/ UpdateUserPassword
    \/ SaveChatMessage(SessionOwners, {0}, ChatArgs(ChatTypes, {None}), MaxChatLog)

SpecIds == Init /\ [][NextIds]_vars

\* one owner saves, re-saves and lists decisions while the clock advances or
\* stands still between two writes
NextResave ==
    \/ SaveDecision({1}, {0, 1})
    \/ GetUserDecisions({1}, {Nothing})

SpecResave == Init /\ [][NextResave]_vars

(* ============================ properties ============================== *)

(* ---- C1 ---- *)
UniqueEmails ==
    /\ \A i, k \in 1..Len(j_users) : j_users[i].email = j_users[k].email => i = k
    /\ \A a, b \in DOMAIN f_users : f_users[a].email = f_users[b].email => a = b

C1_CreateStep ==
    ret'.op = "create_user" =>
        LET e == ret'.email IN
        /\ IF \E i \in 1..Len(j_users) : j_users[i].email = e
           THEN ret'.j = FALSE /\ j_users' = j_users /\ j_prefs' = j_prefs
           ELSE /\ ret'.j = TRUE
                /\ Len(j_users') = Len(j_users) + 1
                /\ SubSeq(j_users', 1, Len(j_users)) = j_users
                /\ j_users'[Len(j_users')].email = e
        /\ IF \E k \in DOMAIN f_users : f_users[k].email = e
           THEN ret'.f = FALSE /\ f_users' = f_users /\ f_prefs' = f_prefs
           ELSE /\ ret'.f = TRUE
                /\ Cardinality(DOMAIN f_users') = Cardinality(DOMAIN f_users) + 1
                /\ \A k \in DOMAIN f_users : k \in DOMAIN f_users' /\ f_users'[k] = f_users[k]
                /\ \E k \in DOMAIN f_users' \ DOMAIN f_users : f_users'[k].email = e

\* C1: create_user returns false and leaves users and preferences unchanged
\* when a user with exactly that email is stored, otherwise returns true and
\* adds exactly one user record; no two stored users ever share an email
\* (both backends).
C1_CreateUserUnique == []UniqueEmails /\ [][C1_CreateStep]_vars

\* a duplicate sign-up was refused while two users (emails differing only in
\* case) are stored
C1_Witness ==
    /\ ret.op = "create_user" /\ ret.j = FALSE /\ ret.f = FALSE
    /\ Len(j_users) = 2 /\ Cardinality(DOMAIN f_users) = 2

(* ---- C8 ---- *)
\* cur_pw[i] is the password last given for the i-th user (at sign-up or by
\* a successful password change)
C8_AuthState ==
    /\ \A i \in 1..Len(j_users) : j_users[i].password_hash = _hash_password(cur_pw[i])
    /\ \A k \in DOMAIN f_users : f_users[k].password_hash = _hash_password(cur_pw[k[2]])
    /\ \A email \in Emails, pw \in Passwords :
        LET js == {i \in 1..Len(j_users) : j_users[i].email = email /\ cur_pw[i] = pw}
            fs == {k \in DOMAIN f_users : f_users[k].email = email /\ cur_pw[k[2]] = pw}
        IN /\ JSON_authenticate_user(email, pw) =
                  IF js = {} THEN Nothing ELSE Some(j_users[CHOOSE i \in js : TRUE].id)
           /\ F_authenticate_user(email, pw) =
                  IF fs = {} THEN Nothing ELSE Some(CHOOSE k \in fs : TRUE)

C8_PasswordStep ==
    \A n \in OwnerIdx, new \in Passwords, old \in Passwords, e \in Emails :
        (ret'.op = "update_user_password" /\ ret'.n = n /\ ret'.password = new) =>
           /\ IF \E i \in 1..Len(j_users) : j_users[i].id = n
              THEN /\ ret'.j = TRUE
                   /\ (\E i \in 1..Len(j_users) : j_users[i].id = n /\ j_users[i].email = e) =>
                        /\ JSON_authenticate_user(e, new)' = Some(n)
                        /\ (cur_pw[n] = old /\ old # new) =>
                               JSON_authenticate_user(e, old)' = Nothing
              ELSE ret'.j = FALSE /\ j_users' = j_users
           /\ IF FireUserId(n) \in DOMAIN f_users
              THEN /\ ret'.f = TRUE
                   /\ f_users[FireUserId(n)].email = e =>
                        /\ F_authenticate_user(e, new)' = Some(FireUserId(n))
                        /\ (cur_pw[n] = old /\ old # new) =>
                               F_authenticate_user(e, old)' = Nothing
              ELSE ret'.f = FALSE /\ f_users' = f_users

\* C8: authenticate_user returns the id of the user stored with that email
\* iff the supplied password is the one currently set for that user (its
\* hash equals the stored hash), and none otherwise; after a successful
\* update_user_password the new password authenticates and the previous one,
\* when different, does not; for an unknown id update_user_password returns
\* false and changes nothing.
C8_Authenticate == []C8_AuthState /\ [][C8_PasswordStep]_vars

\* a password was changed to a different one and login with the new one works
C8_Witness ==
    /\ ret.op = "update_user_password" /\ ret.j = TRUE /\ ret.f = TRUE
    /\ ret.old # ret.password
    /\ JSON_authenticate_user(j_users[ret.n].email, ret.password) = Some(ret.n)
    /\ JSON_authenticate_user(j_users[ret.n].email, ret.old) = Nothing

(* ---- C6 ---- *)
C6_PrefsStep ==
    \A n \in OwnerIdx, p \in PrefDicts :
        (ret'.op = "update_user_preferences" /\ ret'.n = n /\ ret'.preferences = p) =>
           /\ ret'.j = TRUE /\ ret'.f = TRUE
           /\ \A k \in PrefKeys :
                /\ JSON_get_user_preferences(n)'[k] =
                       IF k \in DOMAIN p THEN p[k] ELSE JSON_get_user_preferences(n)[k]
                /\ F_get_user_preferences(FireUserId(n))'[k] =
                       IF k \in DOMAIN p THEN p[k] ELSE F_get_user_preferences(FireUserId(n))[k]

\* C6: update_user_preferences always returns true and changes only the
\* flags present in the partial dictionary: an absent flag keeps its stored
\* value, or takes its default when the record is being created (both
\* backends).
C6_PartialUpdate == [][C6_PrefsStep]_vars

(* ---- C7 ---- *)
\* C7: the preferences collection holds at most one record per user id.
C7_OnePrefsPerUser ==
    /\ \A i, k \in 1..Len(j_prefs) : j_prefs[i].user_id = j_prefs[k].user_id => i = k
    /\ \A a, b \in DOMAIN f_prefs :
           (Get(f_prefs[a], "user_id", a) = Get(f_prefs[b], "user_id", b)) => a = b

(* ---- decisions: the ids the properties range over ---- *)
AllIds == DecisionIds \cup {"uuid-" \o ToString(n) : n \in 1..MaxGen}

\* record r holds the field values of dictionary data under owner and id
HoldsValues(r, owner, id, data) ==
    /\ r.id = id /\ r.user_id = owner
    /\ r.description = data.description
    /\ r.outcome_status = Get(data, "outcome_status", None)
    /\ r.memory_layer = "private"
    /\ r.constraints = <<>> /\ r.alternatives = <<>> /\ r.tags = <<>>
    /\ r.title = None /\ r.goal = None /\ r.final_choice = None
    /\ r.reasoning = None /\ r.expected_outcome = None /\ r.reflection = None

(* ---- C2 ---- *)
\* C2 as stated: for distinct owners A and B and every decision stored under
\* B, get_decision(A, thatId) returns none and get_user_decisions(A) does not
\* contain that decision.
C2_NoneForOtherOwner ==
    \A A \in DecisionOwners : \A B \in DecisionOwners \ {A} :
        /\ \A i \in 1..Len(j_decisions) :
              j_decisions[i].user_id = B =>
                 /\ JSON_get_decision(A, j_decisions[i].id) = Nothing
                 /\ \A k \in 1..Len(JSON_get_user_decisions(A, Nothing)) :
                        JSON_get_user_decisions(A, Nothing)[k] # j_decisions[i]
        /\ \A d \in DOMAIN f_decisions :
              f_decisions[d].user_id = FireUserId(B) =>
                 /\ F_get_decision(FireUserId(A), d) = Nothing
                 /\ \A k \in 1..Len(F_get_user_decisions(FireUserId(A), Nothing)) :
                        F_get_user_decisions(FireUserId(A), Nothing)[k].id # d

\* C2 (amended): get_decision(A, id) returns none unless a decision with
\* that id is stored under A itself, and then returns A's own record; it
\* never returns, and get_user_decisions(A) never lists, a record of another
\* owner (both backends).
C2_OwnershipIsolation ==
    \A A \in DecisionOwners :
        /\ \A id \in AllIds :
              LET r == JSON_get_decision(A, id)
                  g == F_get_decision(FireUserId(A), id)
              IN /\ (r = Nothing) <=>
                        ~\E i \in 1..Len(j_decisions) :
                             j_decisions[i].id = id /\ j_decisions[i].user_id = A
                 /\ r # Nothing => r[1].user_id = A /\ r[1].id = id
                 /\ (g = Nothing) <=>
                        ~(id \in DOMAIN f_decisions /\ f_decisions[id].user_id = FireUserId(A))
                 /\ g # Nothing => g[1].user_id = FireUserId(A) /\ g[1].id = id
        /\ \A k \in 1..Len(JSON_get_user_decisions(A, Nothing)) :
               JSON_get_user_decisions(A, Nothing)[k].user_id = A
        /\ \A k \in 1..Len(F_get_user_decisions(FireUserId(A), Nothing)) :
               F_get_user_decisions(FireUserId(A), Nothing)[k].user_id = FireUserId(A)

\* owner B holds decision d1, owner A holds none with that id and reads none
C2_Witness ==
    \E A \in DecisionOwners : \E B \in DecisionOwners \ {A} :
        /\ \E i \in 1..Len(j_decisions) :
               j_decisions[i].id = "d1" /\ j_decisions[i].user_id = B
        /\ "d1" \in DOMAIN f_decisions /\ f_decisions["d1"].user_id = FireUserId(B)
        /\ JSON_get_decision(A, "d1") = Nothing
        /\ F_get_decision(FireUserId(A), "d1") = Nothing
        /\ JSON_get_user_decisions(A, Nothing) # <<>>

(* ---- C3 ---- *)
C3_OtherOwnerStep ==
    ret'.op \in {"save_decision", "delete_decision"} =>
        \A B \in {ret'.n}, id \in {IF ret'.op = "save_decision" THEN ret'.j ELSE ret'.id} :
          \A A \in DecisionOwners \ {B} :
            /\ JSON_get_decision(A, id) # Nothing =>
                   JSON_get_decision(A, id)' = JSON_get_decision(A, id)
            /\ F_get_decision(FireUserId(A), id) # Nothing =>
                   F_get_decision(FireUserId(A), id)' = F_get_decision(FireUserId(A), id)

\* C3: a decision stored under owner A is not changed, re-owned or removed
\* by save_decision or delete_decision called by another owner B with the
\* same id: get_decision(A, id) returns the same record afterwards (both
\* backends).
C3_OtherOwnerCannotTouch == [][C3_OtherOwnerStep]_vars

(* ---- C4 ---- *)
\* C4 as stated: after save_decision is called a second time with the same id
\* and owner, exactly one stored record has that id, and it holds the values
\* of the second call.
C4_OneRecordWithId ==
    (ret.op = "save_decision" /\ ret.existed) =>
        /\ Cardinality({i \in 1..Len(j_decisions) : j_decisions[i].id = ret.j}) = 1
        /\ Cardinality({d \in DOMAIN f_decisions : d = ret.f}) = 1
        /\ HoldsValues(JSON_get_decision(ret.n, ret.j)[1], ret.n, ret.j, ret.data)
        /\ HoldsValues(F_get_decision(FireUserId(ret.n), ret.f)[1],
                       FireUserId(ret.n), ret.f, ret.data)

C4_ResaveStep ==
    ret'.op = "save_decision" =>
        \A n \in {ret'.n}, id \in {ret'.j} :
            /\ ret'.f = id
            /\ (\E i \in 1..Len(j_decisions) :
                    j_decisions[i].id = id /\ j_decisions[i].user_id = n) =>
                /\ Len(j_decisions') = Len(j_decisions)
                /\ Cardinality({i \in 1..Len(j_decisions') :
                       j_decisions'[i].id = id /\ j_decisions'[i].user_id = n}) = 1
                /\ \A i \in 1..Len(j_decisions) :
                       IF j_decisions[i].id = id /\ j_decisions[i].user_id = n
                       THEN HoldsValues(j_decisions'[i], n, id, ret'.data)
                       ELSE j_decisions'[i] = j_decisions[i]
                /\ JSON_get_decision(n, id)' # Nothing
                /\ HoldsValues(JSON_get_decision(n, id)'[1], n, id, ret'.data)
            /\ (id \in DOMAIN f_decisions /\ f_decisions[id].user_id = FireUserId(n)) =>
                /\ DOMAIN f_decisions' = DOMAIN f_decisions
                /\ \A d \in DOMAIN f_decisions \ {id} : f_decisions'[d] = f_decisions[d]
                /\ F_get_decision(FireUserId(n), id)' # Nothing
                /\ HoldsValues(F_get_decision(FireUserId(n), id)'[1], FireUserId(n), id, ret'.data)

\* C4 (amended): calling save_decision again with the id and the owner of a
\* stored decision leaves exactly one stored record with that id and that
\* owner, in the place of the old one; it holds the values of the last call
\* (whether or not they changed) and no record is added.
C4_UpsertIdempotent == [][C4_ResaveStep]_vars

\* a decision was saved again under the same id and owner, with the second
\* body, while a second record is stored
C4_Witness ==
    /\ ret.op = "save_decision" /\ ret.existed
    /\ ret.data.description = "Stay"
    /\ Len(j_decisions) = 2
    /\ JSON_get_decision(ret.n, ret.j) # Nothing
    /\ JSON_get_decision(ret.n, ret.j)[1].description = "Stay"

(* ---- C5 ---- *)
\* a JSON record and a Firestore document agree up to the owner's id
\* representation and the timestamp value
SameUpToIds(a, b, stamp) ==
    /\ DOMAIN a = DOMAIN b
    /\ \A k \in DOMAIN a \ {"user_id", "id", stamp} : a[k] = b[k]
    /\ b.user_id = FireUserId(a.user_id)

SameDecisions(js, fs) ==
    /\ Len(js) = Len(fs)
    /\ \A i \in 1..Len(js) : SameUpToIds(js[i], fs[i], "created_at") /\ js[i].id = fs[i].id

SameChats(js, fs) ==
    /\ Len(js) = Len(fs)
    /\ \A i \in 1..Len(js) :
           SameUpToIds(js[i], fs[i], "timestamp") /\ fs[i].id = <<"auto", js[i].id>>

\* C5: every operation returns the same result from both backends, up to
\* the renaming of ids (user n <-> FireUserId(n), chat message k <-> k-th
\* generated key) and up to timestamp values.
C5_BackendParity ==
    CASE ret.op \in {"create_user", "update_user_preferences", "get_user_preferences",
                     "delete_decision", "save_decision"} -> ret.j = ret.f
      [] ret.op = "authenticate_user" ->
             IF ret.j = Nothing THEN ret.f = Nothing
             ELSE ret.f = Some(FireUserId(ret.j[1]))
      [] ret.op \in {"get_decision", "get_user_decisions"} -> SameDecisions(ret.j, ret.f)
      [] ret.op = "save_chat_message" -> ret.f = <<"auto", ret.j>>
      [] ret.op = "get_chat_history" -> SameChats(ret.j, ret.f)
      [] OTHER -> TRUE

(* ---- C9 ---- *)
C9_SaveStep ==
    ret'.op = "save_decision" =>
        \A n \in {ret'.n}, id \in {ret'.j}, data \in {ret'.data} :
            LET supplied == "id" \in DOMAIN data /\ data.id # "" IN
            /\ ret'.f = id
            /\ supplied => id = data.id
            /\ ~supplied =>
                  /\ id \notin DecisionIds
                  /\ id \notin {"uuid-" \o ToString(k) : k \in 1..uuid_n}
                  /\ ~\E i \in 1..Len(j_decisions) : j_decisions[i].id = id
                  /\ id \notin DOMAIN f_decisions
            /\ JSON_get_decision(n, id)' # Nothing
            /\ HoldsValues(JSON_get_decision(n, id)'[1], n, id, data)
            /\ F_get_decision(FireUserId(n), id)' # Nothing
            /\ HoldsValues(F_get_decision(FireUserId(n), id)'[1], FireUserId(n), id, data)

\* C9: save_decision returns the caller-supplied id when the dictionary
\* carries a non-empty id and a freshly generated id otherwise, and
\* get_decision(owner, returned id) then returns a record with that id, that
\* owner and the saved field values (both backends).
C9_SaveReturnsId == [][C9_SaveStep]_vars

\* a decision saved without an id got a generated one and is read back,
\* while a decision with a caller-chosen id is stored as well
C9_Witness ==
    /\ ret.op = "save_decision" /\ "id" \notin DOMAIN ret.data
    /\ ret.j = "uuid-1" /\ ret.f = "uuid-1"
    /\ JSON_get_decision(ret.n, "uuid-1") # Nothing
    /\ F_get_decision(FireUserId(ret.n), "uuid-1") # Nothing
    /\ \E i \in 1..Len(j_decisions) : j_decisions[i].id = "d1"

(* ---- C10 ---- *)
\* C10: a decision saved without an outcome status is read back with
\* outcome_status set to a default status value (present and not none) and
\* with created_at set.
C10_StatusDefaulted ==
    (ret.op = "save_decision" /\ "outcome_status" \notin DOMAIN ret.data) =>
        LET r == JSON_get_decision(ret.n, ret.j)
            g == F_get_decision(FireUserId(ret.n), ret.f)
        IN /\ r # Nothing /\ g # Nothing
           /\ "outcome_status" \in DOMAIN r[1] /\ r[1].outcome_status # None
           /\ "outcome_status" \in DOMAIN g[1] /\ g[1].outcome_status # None
           /\ "created_at" \in DOMAIN r[1] /\ r[1].created_at \in 0..MaxClock
           /\ "created_at" \in DOMAIN g[1] /\ g[1].created_at \in 0..MaxClock

(* ---- C11 ---- *)
\* s is ordered by created_at, newest first
NonIncreasingCreated(s) ==
    \A i, k \in 1..Len(s) : i < k => s[i].created_at >= s[k].created_at

\* s holds each record of the set recs once and nothing else
ExactlyRecords(s, recs) ==
    /\ {s[i] : i \in 1..Len(s)} = recs
    /\ Len(s) = Cardinality(recs)

\* the first n elements of s
FirstN(s, n) == SubSeq(s, 1, IF n < Len(s) THEN n ELSE Len(s))

\* C11: get_user_decisions(owner, limit) returns exactly the stored decisions
\* of owner, newest first; with a limit n >= 0 the result has at most n
\* elements and is the first n elements of the unlimited result.
C11_ListOrderedAndCapped ==
    ret.op = "get_user_decisions" =>
        LET n == ret.n
            all_j == JSON_get_user_decisions(n, Nothing)
            all_f == F_get_user_decisions(FireUserId(n), Nothing)
            own_j == {j_decisions[i] : i \in {k \in 1..Len(j_decisions) :
                                                j_decisions[k].user_id = n}}
            own_f == {Merge(f_decisions[k], [id |-> k]) :
                         k \in {h \in DOMAIN f_decisions :
                                   f_decisions[h].user_id = FireUserId(n)}}
        IN /\ ExactlyRecords(all_j, own_j) /\ NonIncreasingCreated(all_j)
           /\ ExactlyRecords(all_f, own_f) /\ NonIncreasingCreated(all_f)
           /\ ret.limit = Nothing => ret.j = all_j /\ ret.f = all_f
           /\ ret.limit # Nothing =>
                 /\ Len(ret.j) <= ret.limit[1] /\ ret.j = FirstN(all_j, ret.limit[1])
                 /\ Len(ret.f) <= ret.limit[1] /\ ret.f = FirstN(all_f, ret.limit[1])

(* ---- C12 ---- *)
\* s with its i-th element taken out
RemoveAt(s, i) == SubSeq(s, 1, i - 1) \o SubSeq(s, i + 1, Len(s))

C12_DeleteStep ==
    ret'.op = "delete_decision" =>
        \A n \in {ret'.n} : \A id \in {ret'.id} :
            LET hits == {i \in 1..Len(j_decisions) :
                            j_decisions[i].id = id /\ j_decisions[i].user_id = n}
                had_f == /\ id \in DOMAIN f_decisions
                         /\ f_decisions[id].user_id = FireUserId(n)
            IN /\ ret'.j = (hits # {})
               /\ hits # {} =>
                     /\ \E i \in hits : j_decisions' = RemoveAt(j_decisions, i)
                     /\ JSON_get_decision(n, id)' = Nothing
               /\ hits = {} => j_decisions' = j_decisions
               /\ ret'.f = had_f
               /\ had_f =>
                     /\ DOMAIN f_decisions' = DOMAIN f_decisions \ {id}
                     /\ \A k \in DOMAIN f_decisions' : f_decisions'[k] = f_decisions[k]
                     /\ F_get_decision(FireUserId(n), id)' = Nothing
               /\ ~had_f => f_decisions' = f_decisions

\* C12: delete_decision(owner, id) returns true iff a decision with that id
\* and that owner was stored; on true exactly that record is removed and
\* get_decision(owner, id) is none afterwards; on false the collection is
\* unchanged; a decision of another id or owner is never removed.
C12_DeleteOwnedOnly == [][C12_DeleteStep]_vars

\* a delete has removed one owner's record while another owner's record with
\* the same id stays in the local store
C12_Witness ==
    /\ ret.op = "delete_decision" /\ ret.j = TRUE /\ ret.f = TRUE
    /\ \E i \in 1..Len(j_decisions) :
          j_decisions[i].id = ret.id /\ j_decisions[i].user_id # ret.n

(* ---- chat: the stored messages as the callers see them ---- *)
\* the messages of the local store / the remote documents with their keys
StoredChat_j == {j_chat[i] : i \in 1..Len(j_chat)}
StoredChat_f == {Merge(f_chat[k], [id |-> k]) : k \in DOMAIN f_chat}

NonDecreasingTimestamp(s) ==
    \A i, k \in 1..Len(s) : i < k => s[i].timestamp <= s[k].timestamp

\* message c of owner passes the criteria of a get_chat_history call (None:
\* criterion not supplied)
MatchesCriteria(c, owner, decision_id, chat_type, include_hidden) ==
    /\ c.user_id = owner
    /\ decision_id # None => c.decision_id = decision_id
    /\ chat_type # None => c.chat_type = chat_type
    /\ ~include_hidden => c.is_visible_to_user = TRUE

(* ---- C13 ---- *)
\* C13: get_chat_history(owner, decision_id, chat_type, include_hidden)
\* returns exactly the messages saved under owner that match every supplied
\* criterion, oldest first, and never a message of another owner.
C13_ChatHistoryFiltered ==
    ret.op = "get_chat_history" =>
        LET n == ret.n
            want_j == {c \in StoredChat_j :
                          MatchesCriteria(c, n, ret.decision_id, ret.chat_type,
                                          ret.include_hidden)}
            want_f == {c \in StoredChat_f :
                          MatchesCriteria(c, FireUserId(n), ret.decision_id, ret.chat_type,
                                          ret.include_hidden)}
        IN /\ ExactlyRecords(ret.j, want_j) /\ NonDecreasingTimestamp(ret.j)
           /\ ExactlyRecords(ret.f, want_f) /\ NonDecreasingTimestamp(ret.f)
           /\ \A i \in 1..Len(ret.j) : ret.j[i].user_id = n
           /\ \A i \in 1..Len(ret.f) : ret.f[i].user_id = FireUserId(n)

\* a filtered read returned a message and left out another stored one
C13_Witness ==
    /\ ret.op = "get_chat_history"
    /\ ret.chat_type # None /\ ret.decision_id # None
    /\ Len(ret.j) >= 1 /\ Len(ret.j) < Len(j_chat)
    /\ Len(ret.f) >= 1 /\ Len(ret.f) < Cardinality(DOMAIN f_chat)

(* ---- C14 ---- *)
\* C14: a message saved hidden is absent from get_chat_history without
\* include_hidden and present with it (when it passes the other criteria);
\* get_chat_history_for_decision(owner, d) returns exactly the messages of
\* owner linked to d, hidden ones included, none linked elsewhere or nowhere.
C14_VisibilityFilter ==
    /\ ret.op = "get_chat_history" =>
          LET hidden_j == {c \in StoredChat_j :
                              /\ c.is_visible_to_user = FALSE
                              /\ MatchesCriteria(c, ret.n, ret.decision_id,
                                                 ret.chat_type, TRUE)}
              hidden_f == {c \in StoredChat_f :
                              /\ c.is_visible_to_user = FALSE
                              /\ MatchesCriteria(c, FireUserId(ret.n), ret.decision_id,
                                                 ret.chat_type, TRUE)}
              got_j == {ret.j[i] : i \in 1..Len(ret.j)}
              got_f == {ret.f[i] : i \in 1..Len(ret.f)}
          IN IF ret.include_hidden
             THEN hidden_j \subseteq got_j /\ hidden_f \subseteq got_f
             ELSE /\ \A c \in got_j : c.is_visible_to_user = TRUE
                  /\ \A c \in got_f : c.is_visible_to_user = TRUE
                  /\ hidden_j \cap got_j = {} /\ hidden_f \cap got_f = {}
    /\ ret.op = "get_chat_history_for_decision" =>
          /\ ExactlyRecords(ret.j, {c \in StoredChat_j :
                                      /\ c.user_id = ret.n
                                      /\ c.decision_id = ret.decision_id})
          /\ ExactlyRecords(ret.f, {c \in StoredChat_f :
                                      /\ c.user_id = FireUserId(ret.n)
                                      /\ c.decision_id = ret.decision_id})

\* the audit trail of a decision holds a hidden message while the owner has
\* another message that is not linked to that decision
C14_Witness ==
    /\ ret.op = "get_chat_history_for_decision"
    /\ \E i \in 1..Len(ret.j) : ret.j[i].is_visible_to_user = FALSE
    /\ \E i \in 1..Len(ret.f) : ret.f[i].is_visible_to_user = FALSE
    /\ \E c \in StoredChat_j : c.user_id = ret.n /\ c.decision_id # ret.decision_id

(* ---- C15 ---- *)
\* the users that have no preferences record (orphans of an interrupted
\* sign-up among them)
NoPrefs_j(uid) == \A i \in 1..Len(j_prefs) : j_prefs[i].user_id # uid
NoPrefs_f(uid) == uid \notin DOMAIN f_prefs

C15_PrefsState ==
    ret.op = "get_user_preferences" =>
        /\ ret.j \in [PrefKeys -> BOOLEAN] /\ ret.f \in [PrefKeys -> BOOLEAN]
        /\ NoPrefs_j(ret.n) =>
              ret.j = [share_data_with_ai |-> FALSE, view_chat_history |-> TRUE]
        /\ NoPrefs_f(FireUserId(ret.n)) =>
              ret.f = [share_data_with_ai |-> FALSE, view_chat_history |-> TRUE]

C15_CreateStep ==
    ret'.op = "create_user" =>
        /\ (\E i \in 1..Len(j_users) :
               j_users[i].email = ret'.email /\ NoPrefs_j(j_users[i].id))
              => ret'.j = FALSE /\ j_users' = j_users /\ j_prefs' = j_prefs
        /\ (\E k \in DOMAIN f_users : f_users[k].email = ret'.email /\ NoPrefs_f(k))
              => ret'.f = FALSE /\ f_users' = f_users /\ f_prefs' = f_prefs

\* C15: get_user_preferences always answers, and with share_data_with_ai =
\* false, view_chat_history = true for an owner without a preferences record,
\* also for a user whose create_user stopped after the user record was
\* written; a later create_user with that user's email returns false.
C15_OrphanDefaults == []C15_PrefsState /\ [][C15_CreateStep]_vars

\* the preferences of a user that an interrupted sign-up left without a
\* record have been read, while another user has changed preferences
C15_Witness ==
    /\ ret.op = "get_user_preferences"
    /\ ret.n <= Len(j_users) /\ NoPrefs_j(ret.n) /\ NoPrefs_f(FireUserId(ret.n))
    /\ FireUserId(ret.n) \in DOMAIN f_users
    /\ \E i \in 1..Len(j_prefs) : j_prefs[i].share_data_with_ai = TRUE

(* ---- C16 ---- *)
\* record r shows no password hash: it has the public fields of a user only,
\* and its text fields do not hold the hash of a password
HidesHash(r) ==
    /\ "password_hash" \notin DOMAIN r
    /\ DOMAIN r = {"id", "email", "full_name", "created_at"}
    /\ \A k \in {"email", "full_name"} : \A p \in Passwords : r[k] # _hash_password(p)

\* C16: get_user(id) and get_user_by_email(email) return none for an unknown
\* id or email and otherwise the record of that user without the password
\* hash, in both backends, whatever sign-ups and password changes came before.
C16_NoPasswordHash ==
    /\ ret.op = "get_user" =>
          /\ (ret.j = Nothing) = (\A i \in 1..Len(j_users) : j_users[i].id # ret.n)
          /\ (ret.f = Nothing) = (FireUserId(ret.n) \notin DOMAIN f_users)
          /\ ret.j # Nothing => HidesHash(ret.j[1]) /\ ret.j[1].id = ret.n
          /\ ret.f # Nothing => HidesHash(ret.f[1]) /\ ret.f[1].id = FireUserId(ret.n)
    /\ ret.op = "get_user_by_email" =>
          /\ (ret.j = Nothing) = (\A i \in 1..Len(j_users) : j_users[i].email # ret.email)
          /\ (ret.f = Nothing) = (\A k \in DOMAIN f_users : f_users[k].email # ret.email)
          /\ ret.j # Nothing => HidesHash(ret.j[1]) /\ ret.j[1].email = ret.email
          /\ ret.f # Nothing => HidesHash(ret.f[1]) /\ ret.f[1].email = ret.email

\* a user whose password was changed since sign-up has been looked up
C16_Witness ==
    /\ ret.op = "get_user" /\ ret.j # Nothing /\ ret.f # Nothing
    /\ \E i \in 1..Len(j_users) :
          /\ j_users[i].id = ret.n
          /\ j_users[i].password_hash = _hash_password("wrong")
    /\ \E i \in 1..Len(j_users) : j_users[i].password_hash = _hash_password("pw1")

(* ---- C17 ---- *)
C17_SelectStep ==
    ret'.op = "select_backend" =>
        LET e == ret'
            flag == e.force_json_db = "1"
            path == IF e.firebase_key_path \notin {None, ""}
                    THEN e.firebase_key_path ELSE e.google_credentials
            configured == path \notin {None, ""}
            present == configured /\ path \in e.existing
        IN /\ flag => db' = "JSONDatabaseManager"
           /\ (~configured \/ ~present \/ ~e.fire_imported) => db' = "JSONDatabaseManager"
           /\ ~e.constructed => db' = "JSONDatabaseManager"
           /\ (db' = "FirestoreDatabaseManager") =
                 (~flag /\ configured /\ present /\ e.fire_imported /\ e.constructed)
           /\ db' \in {"JSONDatabaseManager", "FirestoreDatabaseManager"}

C17_HandleKept == db # "unloaded" => db' = db

\* C17: the selector returns the local store when the force flag is set, when
\* no credential path is configured, the path does not exist or the client
\* library is missing, and when construction of the remote store fails; it
\* returns the remote store exactly in the remaining case; it always returns
\* a store, runs once, and the handle is never replaced afterwards.
C17_BackendSelector == [][C17_SelectStep /\ C17_HandleKept]_vars

\* the flag forced the local store although the remote store could have
\* been constructed
C17_Witness ==
    /\ ret.op = "select_backend"
    /\ ret.force_json_db = "1"
    /\ ret.firebase_key_path \in ret.existing
    /\ ret.fire_imported /\ ret.constructed
    /\ db = "JSONDatabaseManager"

(* ---- C18 ---- *)
\* every required field of the stored decision d is filled
StoredComplete(d) ==
    /\ \A k \in StringFields : d[k] # "" /\ d[k] # None
    /\ \A k \in SequenceFields : d[k] # <<>>

\* the messages of the chat file that are linked to a decision
LinkedChat(chat) == {i \in 1..Len(chat) : chat[i].decision_id # None}

C18_SaveStep ==
    /\ (j_decisions' # j_decisions \/ f_decisions' # f_decisions) =>
          /\ ret'.op = "page_save" /\ ret'.complete
          /\ Len(j_decisions') = Len(j_decisions) + 1
          /\ StoredComplete(j_decisions'[1])
          /\ \A k \in DOMAIN f_decisions' \ DOMAIN f_decisions :
                StoredComplete(f_decisions'[k])
    /\ ret'.op \in {"page_save", "save_refused"} /\ ~ret'.complete =>
          /\ ret'.op = "save_refused"
          /\ j_decisions' = j_decisions /\ f_decisions' = f_decisions
          /\ j_chat' = j_chat /\ f_chat' = f_chat
          /\ decision_chat' = ret'.transcript \o
                 <<[role |-> "user", content |-> ret'.text],
                   [role |-> "assistant", content |-> ret'.reply]>>
          /\ decision_recorder' # Nothing /\ recorder_started'
          /\ current_page' = "record_decision"
          /\ (~ret'.switched /\ decision_recorder # Nothing) =>
                /\ decision_recorder'[1].language = decision_recorder[1].language
                /\ Accumulates(decision_recorder[1].data, decision_recorder'[1].data)
                /\ SubSeq(decision_chat', 1, Len(decision_chat)) = decision_chat
    /\ LinkedChat(j_chat') # LinkedChat(j_chat) => ret'.op = "page_save" /\ ret'.complete

Exchanges(T) ==
    {i \in 1..(Len(T) - 1) : T[i].role = "user" /\ T[i + 1].role = "assistant"}

\* the chat messages a step has added to the chat file, as
\* <<user text, assistant text, decision id>>
Added_j == {k \in (Len(j_chat) + 1)..Len(j_chat') : TRUE}
AddedTriple_j(k) ==
    <<j_chat'[k].user_message, j_chat'[k].ai_response, j_chat'[k].decision_id>>
Added_f == DOMAIN f_chat' \ DOMAIN f_chat
AddedTriple_f(k) ==
    <<f_chat'[k].user_message, f_chat'[k].ai_response, f_chat'[k].decision_id>>

C19_PairStep ==
    ret'.op = "page_save" =>
        LET T == ret'.transcript
            Want(i) == <<T[i].content, T[i + 1].content, ret'.id>>
            triples == {Want(i) : i \in Exchanges(T)}
                          \cup {AddedTriple_j(k) : k \in Added_j}
                          \cup {AddedTriple_f(k) : k \in Added_f}
        IN /\ SubSeq(j_chat', 1, Len(j_chat)) = j_chat
           /\ \A k \in DOMAIN f_chat : f_chat'[k] = f_chat[k]
           /\ \A x \in triples :
                 LET n == Cardinality({i \in Exchanges(T) : Want(i) = x})
                 IN /\ Cardinality({k \in Added_j : AddedTriple_j(k) = x}) = n
                    /\ Cardinality({k \in Added_f : AddedTriple_f(k) = x}) = n

\* C19: when a complete decision is saved from the record page, one chat
\* message is saved for each user message of the transcript that an assistant
\* message follows at once, with that user text, that assistant text and the
\* new decision's id, and no other chat message is saved; on all three save
\* paths, also when a user text occurs twice.
C19_PairsSaved == [][C19_PairStep]_vars

(* ---- C20 ---- *)
C20_ClearStep ==
    ret'.op = "page_save" =>
        /\ decision_recorder' = Nothing
        /\ recorder_started' = FALSE
        /\ decision_chat' = <<>>

\* C20: after every successful save from the record page (top button, typed
\* command, bottom button) the recorder, the started flag and the transcript
\* of the session are cleared, so that the same collected fields cannot be
\* saved again as another decision.
C20_SessionCleared == [][C20_ClearStep]_vars

(* ------------------------------- C21 ---------------------------------- *)
\* the utterance typed in the run that wrote ret'
TypedUtterance == CHOOSE u \in Utterances : u.text = ret'.text

\* the run handled a typed utterance (lines 852-994)
HandledUtterance ==
    \/ ret'.op \in {"utterance", "save_refused"}
    \/ ret'.op = "page_save" /\ ret'.path = "typed"

\* the two messages the run appended for the utterance
AppendedMessages ==
    <<Message("user", ret'.text), Message("assistant", ret'.reply)>>

\* C21: when the language detected in an utterance differs from the language
\* of the recorder held in the session, the utterance is handled with a fresh
\* recorder bound to the detected language and a transcript reset to that
\* recorder's opening prompt; when the languages are equal the recorder and
\* the transcript are kept.  Seen from the state a run leaves: after a
\* regular utterance or a refused save command the session holds the fresh
\* recorder and <<opening prompt, utterance, reply>> (other language), or the
\* recorder it held, with no field emptied, and the transcript it held
\* followed by the utterance and the reply (same language); a typed save
\* command that persists links the pairs of the one-message transcript, that
\* is none (other language), or the pairs of the transcript held (same
\* language).
C21_SwitchStep ==
    HandledUtterance =>
        LET held == Prelude(EmptyData)
            lang == held.recorder.language
            data == IF decision_recorder = Nothing THEN EmptyData
                    ELSE decision_recorder[1].data
            detected_lang == detect_language(TypedUtterance.chars)
            fresh == DecisionRecorder(detected_lang)
            opening == <<Message("assistant", start_conversation(fresh))>>
        IN IF lang # detected_lang
           THEN IF ret'.op = "page_save"
                THEN Len(j_chat') = Len(j_chat) /\ DOMAIN f_chat' = DOMAIN f_chat
                ELSE /\ decision_recorder' = Some(fresh)
                     /\ recorder_started'
                     /\ decision_chat' = opening \o AppendedMessages
           ELSE IF ret'.op = "page_save"
                THEN Len(j_chat') = Len(j_chat) + Len(pairs_by_position(held.chat))
                ELSE /\ decision_recorder' # Nothing
                     /\ decision_recorder'[1].language = lang
                     /\ Accumulates(data, decision_recorder'[1].data)
                     /\ decision_chat' = held.chat \o AppendedMessages

C21_LanguageSwitch == [][C21_SwitchStep]_vars

\* a conversation of three messages in English was replaced, on a Hindi
\* utterance, by a Hindi recorder and its opening prompt
C21_Witness ==
    /\ ret.op = "save_refused" /\ ret.switched
    /\ decision_recorder = Some(DecisionRecorder("hi"))
    /\ Len(ret.transcript) = 1
    /\ decision_chat[1].content = start_conversation(DecisionRecorder("hi"))
    /\ Len(decision_chat) = 3
    /\ \E i \in 1..Len(j_chat) : j_chat[i].user_message = "I want to move"


(* ------------------------------- C22 ---------------------------------- *)
\* the value a field has when it is empty
EmptyValue(k) == IF k \in SequenceFields THEN <<>> ELSE ""

\* C22: the completeness status read from a recorder is true iff each of the
\* six required fields (description, goal, constraints, alternatives,
\* final_choice, reasoning) is non-empty; a complete recorder with any single
\* required field emptied is not complete; and the status is the same whatever
\* expected_outcome holds.
C22_CompleteIffAllFilled ==
    ret.op = "recorder_status" =>
        LET data == ret.collected
        IN /\ ret.complete <=> \A k \in RequiredFields : data[k] # EmptyValue(k)
           /\ RequiredFields = {"description", "goal", "constraints", "alternatives",
                                "final_choice", "reasoning"}
           /\ ret.complete =>
                  \A k \in RequiredFields :
                      ~is_decision_complete([data EXCEPT ![k] = EmptyValue(k)])
           /\ \A x \in {"", "a raise"} :
                  is_decision_complete([data EXCEPT !.expected_outcome = x]) = ret.complete

\* a recorder with the six required fields filled and no expected outcome
\* was read as complete
C22_Witness ==
    /\ ret.op = "recorder_status" /\ ret.complete
    /\ ret.collected.expected_outcome = ""
    /\ ret.collected.constraints = <<"budget">>


(* ------------------------------- C23 ---------------------------------- *)
\* C23: detect_language(text) is "hi" iff the characters of text in
\* U+0900..U+097F are strictly more than 20% of its characters, and "en"
\* otherwise; the empty text and a text with exactly 20% such characters
\* give "en".
C23_DetectLanguage ==
    ret.op = "detect_language" =>
        LET text == ret.text
            count == Cardinality({i \in 1..Len(text) : text[i] \in 2304..2431})
        IN /\ ret.result \in {"hi", "en"}
           /\ ret.result = "hi" <=> 5 * count > Len(text)
           /\ Len(text) = 0 => ret.result = "en"
           /\ 5 * count = Len(text) => ret.result = "en"

\* the call leaves the stores and the session as they were
C23_NoStateStep ==
    ret'.op = "detect_language" =>
        UNCHANGED <<appVars, userVars, decisionVars, chatVars, now>>

C23_DetectLanguagePure == []C23_DetectLanguage /\ [][C23_NoStateStep]_vars

\* a text of five characters, exactly one of them in the block, was
\* classified as English
C23_Witness ==
    /\ ret.op = "detect_language"
    /\ Len(ret.text) = 5
    /\ Cardinality({i \in 1..5 : ret.text[i] \in 2304..2431}) = 1
    /\ ret.result = "en"


(* ------------------------------- C24 ---------------------------------- *)
\* two calls have returned True for the same email
BothTrueSameEmail ==
    \E p \in Procs : \E q \in Procs \ {p} :
        /\ calls[p].result = Some(TRUE) /\ calls[q].result = Some(TRUE)
        /\ calls[p].email = calls[q].email

\* two calls have given their users the same id
SameSequentialId ==
    \E p \in Procs : \E q \in Procs \ {p} :
        calls[p].uid # 0 /\ calls[p].uid = calls[q].uid

\* a call has written its user record and the users collection does not
\* hold a record of that email
RecordLost ==
    \E p \in Procs :
        /\ calls[p].pc \in {"saved", "loaded_prefs", "done"}
        /\ calls[p].uid # 0
        /\ \A i \in 1..Len(j_users) : j_users[i].email # calls[p].email

RaceDamage == BothTrueSameEmail \/ SameSequentialId \/ RecordLost

\* C24: in the Local File Store, two create_user calls of which one reads
\* the users collection before the other has rewritten it can end with both
\* returning True for one email, with one id given twice, or with one call's
\* record lost; and none of these states occurs unless some call started
\* while another was in progress.
C24_DamageOnlyWhenOverlapped ==
    RaceDamage => \E p \in Procs : calls[p].overlapped

\* two calls for different emails both returned True with id 1, the second
\* having read the users before the first rewrote them, and the collection
\* holds one record only
C24_Witness ==
    /\ calls[1].result = Some(TRUE) /\ calls[2].result = Some(TRUE)
    /\ calls[1].email # calls[2].email
    /\ calls[1].uid = 1 /\ calls[2].uid = 1
    /\ calls[2].overlapped
    /\ Len(j_users) = 1
    /\ SameSequentialId /\ RecordLost


(* ------------------------------- C25 ---------------------------------- *)
\* the fields of a decision a caller can put into decision_data
ContentFields ==
    {"title", "description", "goal", "constraints", "alternatives", "final_choice",
     "reasoning", "expected_outcome", "memory_layer", "tags", "reflection",
     "outcome_status"}

C25_MergeStep ==
    \A id \in AllIds :
        (/\ ret'.op = "save_decision" /\ ret'.f = id
         /\ id \in DOMAIN f_decisions) =>
            \A k \in ContentFields \ DOMAIN ret'.data :
                f_decisions'[id][k] = f_decisions[id][k]

\* C25: in the Firestore backend, save_decision on an existing decision id
\* changes only the fields its decision_data names: every other content
\* field of the stored decision keeps its value.
C25_MergeKeepsUnmentioned == [][C25_MergeStep]_vars


(* ------------------------------- C26 ---------------------------------- *)
\* every stored chat message is stored unchanged after the step
C26_AppendOnlyStep ==
    /\ Len(j_chat') >= Len(j_chat)
    /\ SubSeq(j_chat', 1, Len(j_chat)) = j_chat
    /\ DOMAIN f_chat \subseteq DOMAIN f_chat'
    /\ \A k \in DOMAIN f_chat : f_chat'[k] = f_chat[k]

\* delete_decision leaves the messages linked to the decision where they are
C26_DeleteStep ==
    \A n \in OwnerIdx, id \in AllIds :
        (ret'.op = "delete_decision" /\ ret'.n = n /\ ret'.id = id) =>
            /\ JSON_get_chat_history_for_decision(n, id)' =
                   JSON_get_chat_history_for_decision(n, id)
            /\ F_get_chat_history_for_decision(FireUserId(n), id)' =
                   F_get_chat_history_for_decision(FireUserId(n), id)

\* C26: chat messages are append-only: no storage operation changes or
\* removes a stored chat message, and get_chat_history_for_decision(owner, id)
\* returns the same messages before and after delete_decision(owner, id).
C26_ChatAppendOnly == [][C26_AppendOnlyStep /\ C26_DeleteStep]_vars

\* the owner's decision "d1" has just been deleted and a message linked to
\* it is still returned
C26_Witness ==
    /\ ret.op = "delete_decision" /\ ret.n = 1 /\ ret.id = "d1"
    /\ ret.j = TRUE /\ ret.f = TRUE
    /\ "d1" \notin DOMAIN f_decisions
    /\ JSON_get_chat_history_for_decision(1, "d1") # <<>>
    /\ F_get_chat_history_for_decision(FireUserId(1), "d1") # <<>>


(* ------------------------------- C27 ---------------------------------- *)
\* the ids stored in the users file and in the chat file are 1..n, each once
C27_IdsState ==
    /\ \A i \in 1..Len(j_users) : j_users[i].id = i
    /\ \A i \in 1..Len(j_users) : \A k \in 1..Len(j_users) :
           j_users[i].id = j_users[k].id => i = k
    /\ \A i \in 1..Len(j_chat) : j_chat[i].id = i
    /\ \A i \in 1..Len(j_chat) : \A k \in 1..Len(j_chat) :
           j_chat[i].id = j_chat[k].id => i = k

\* a record added gets the number of records stored before, plus one
C27_NewIdStep ==
    /\ Len(j_users') <= Len(j_users) + 1
    /\ Len(j_users') = Len(j_users) + 1 =>
           j_users'[Len(j_users')].id = Len(j_users) + 1
    /\ ret'.op = "save_chat_message" =>
           /\ Len(j_chat') = Len(j_chat) + 1
           /\ j_chat'[Len(j_chat')].id = Len(j_chat) + 1
           /\ ret'.j = Len(j_chat) + 1

\* C27: in the JSON backend a new user's id is the number of stored users
\* plus one and a new chat message's id the number of stored messages plus
\* one; no operation removes a user or a message, so after any sequence of
\* completed operations the user ids are exactly 1..n and pairwise distinct,
\* and so are the chat message ids.
C27_SequentialIds == []C27_IdsState /\ [][C27_NewIdStep]_vars

\* two users and two chat messages are stored, a password having been
\* changed in between
C27_Witness ==
    /\ Len(j_users) = 2 /\ Len(j_chat) = 2
    /\ j_users[2].id = 2 /\ j_chat[2].id = 2
    /\ j_users[1].password_hash # _hash_password("pw1")


(* ------------------------------- C28 ---------------------------------- *)
C28_FreshRecorderStep ==
    (ret'.op = "page_save" /\ ret'.path = "typed") =>
        LET held == Prelude(EmptyData)
            detected_lang == detect_language(TypedUtterance.chars)
            used == IF held.recorder.language # detected_lang
                    THEN DecisionRecorder(detected_lang).data
                    ELSE ret'.collected
        IN /\ is_decision_complete(used)
           /\ ret'.collected = used

\* C28: a run that replaces the recorder because the utterance is in another
\* language uses the new recorder from then on: a typed save command persists
\* only if the recorder then held in the session is complete, and it persists
\* that recorder's fields; so a save command in the other language persists
\* nothing of the replaced recorder.
C28_NoStaleRecorder == [][C28_FreshRecorderStep]_vars


(* ------------------------------- C29 ---------------------------------- *)
\* position of the decision with this id in a list returned
PositionOf(list, id) == FirstIdx({i \in 1..Len(list) : list[i].id = id})

\* the decision at position p is listed before every decision created earlier
BeforeEarlier(list, p) ==
    \A i \in 1..Len(list) : list[i].created_at < list[p].created_at => p < i

\* no other decision listed carries the creation time of the one at position
\* p or a later one
LatestAlone(list, p) ==
    \A i \in 1..Len(list) : i # p => list[i].created_at < list[p].created_at

\* the state right after a save of a stored decision of the owner (ret holds
\* the call, now the time it was made at): what is stored
C29_Restamped ==
    (ret.op = "save_decision" /\ ret.existed) =>
        /\ JSON_get_decision(ret.n, ret.j)[1] =
               Merge([id |-> ret.j], PayloadFields(ret.n, ret.data, now))
        /\ F_get_decision(FireUserId(ret.n), ret.f)[1] =
               Merge([id |-> ret.f], PayloadFields(FireUserId(ret.n), ret.data, now))
        /\ JSON_get_decision(ret.n, ret.j)[1].created_at = now
        /\ F_get_decision(FireUserId(ret.n), ret.f)[1].created_at = now

\* and where get_user_decisions lists it
C29_Listed ==
    (ret.op = "save_decision" /\ ret.existed) =>
        LET lj == JSON_get_user_decisions(ret.n, Nothing)
            lf == F_get_user_decisions(FireUserId(ret.n), Nothing)
            pj == PositionOf(lj, ret.j)
            pf == PositionOf(lf, ret.f)
        IN /\ pj # 0 /\ pf # 0
           /\ BeforeEarlier(lj, pj)
           /\ BeforeEarlier(lf, pf)
           /\ LatestAlone(lj, pj) => pj = 1
           /\ LatestAlone(lf, pf) => pf = 1

\* C29 (amended): save_decision on a stored decision of the owner replaces
\* its created_at by the time of the re-save in both backends, and the stored
\* record holds nothing but the fields of that call, so the first creation
\* time is kept nowhere; get_user_decisions(owner) then lists the decision
\* before every decision created earlier than the re-save, and first when no
\* other decision of the owner carries the time of the re-save.
C29_ResaveRestamps == C29_Restamped /\ C29_Listed

\* C29: a re-saved decision is the first element of get_user_decisions(owner)
\* in both backends, whatever the times of the other decisions.
C29_ResavedIsFirst ==
    (ret.op = "save_decision" /\ ret.existed) =>
        /\ JSON_get_user_decisions(ret.n, Nothing)[1].id = ret.j
        /\ F_get_user_decisions(FireUserId(ret.n), Nothing)[1].id = ret.f

\* the decision created first of two has just been saved again at a later
\* time and is now listed first in both backends
C29_Witness ==
    /\ ret.op = "save_decision" /\ ret.existed
    /\ Len(j_decisions) = 2
    /\ j_decisions[2].id = ret.j
    /\ j_decisions[2].created_at > j_decisions[1].created_at
    /\ j_decisions[1].created_at > 0
    /\ JSON_get_user_decisions(1, Nothing)[1].id = ret.j
    /\ F_get_user_decisions(FireUserId(1), Nothing)[1].id = ret.j


(* ------------------------------- C30 ---------------------------------- *)
\* the texts that are save commands
SaveTexts == {u.text : u \in {v \in Utterances : is_save_command(v)}}

\* the (user, assistant) pairs of a transcript whose user text is a regular
\* utterance
\* the exchanges of transcript T in order, each as <<user text, assistant text>>
ExchangePairs(T) ==
    LET adjacent == [i \in 1..(Len(T) - 1) |-> <<T[i], T[i + 1]>>]
        IsExchange(a) == a[1].role = "user" /\ a[2].role = "assistant"
        found == SelectSeq(adjacent, IsExchange)
    IN [k \in 1..Len(found) |-> <<found[k][1].content, found[k][2].content>>]

RegularPairs(T) ==
    LET Regular(pair) == pair[1] \notin SaveTexts
    IN SelectSeq(ExchangePairs(T), Regular)

\* the page user's messages in a list that are linked to no decision
Unlinked(list) ==
    LET NoDecision(c) == c.user_id = PageUser /\ c.decision_id = None
    IN SelectSeq(list, NoDecision)

\* the last n messages of a list
LastN(list, n) == SubSeq(list, Len(list) - n + 1, Len(list))

\* the messages of a list carry the texts of the pairs, in order
CarryPairs(list, pairs) ==
    /\ Len(list) = Len(pairs)
    /\ \A i \in 1..Len(pairs) :
           list[i].user_message = pairs[i][1] /\ list[i].ai_response = pairs[i][2]

\* a regular utterance is stored at once, as one message linked to no
\* decision
C30_UtteranceStep ==
    ret'.op = "utterance" =>
        /\ Len(j_chat') = Len(j_chat) + 1
        /\ SubSeq(j_chat', 1, Len(j_chat)) = j_chat
        /\ AddedTriple_j(Len(j_chat')) = <<ret'.text, ret'.reply, None>>
        /\ j_chat'[Len(j_chat')].user_id = PageUser
        /\ Cardinality(Added_f) = 1
        /\ \A k \in Added_f :
               /\ AddedTriple_f(k) = <<ret'.text, ret'.reply, None>>
               /\ f_chat'[k].user_id = FireUserId(PageUser)

\* the regular exchanges of the transcript in the session are the page
\* user's latest stored messages that are linked to no decision
C30_SessionStored ==
    LET reg == RegularPairs(decision_chat)
        un == Unlinked(j_chat)
    IN Len(un) >= Len(reg) /\ CarryPairs(LastN(un, Len(reg)), reg)

\* the state right after a typed save command in the recorder's language has
\* persisted (ret holds the transcript and the new id)
C30_AfterTypedSave ==
    (ret.op = "page_save" /\ ret.path = "typed" /\ ~ret.switched) =>
        LET pairs == ExchangePairs(ret.transcript)
            reg == RegularPairs(ret.transcript)
            n == Len(reg)
            linked_j == JSON_get_chat_history_for_decision(PageUser, ret.id)
            linked_f == F_get_chat_history_for_decision(FireUserId(PageUser), ret.id)
            all_j == JSON_get_chat_history(PageUser, None, None, FALSE)
            all_f == F_get_chat_history(FireUserId(PageUser), None, None, FALSE)
            IsLinked(c) == c.decision_id = ret.id
            NotLinked(c) == c.decision_id = None
        IN /\ CarryPairs(linked_j, pairs)
           /\ CarryPairs(linked_f, pairs)
           /\ Len(pairs) = n =>
                  /\ Len(linked_j) = n /\ Len(linked_f) = n
                  /\ Len(SelectSeq(all_j, IsLinked)) = n
                  /\ Len(SelectSeq(all_f, IsLinked)) = n
                  /\ Len(Unlinked(all_j)) >= n
                  /\ CarryPairs(LastN(Unlinked(all_j), n), reg)
                  /\ Len(SelectSeq(all_f, NotLinked)) = Len(Unlinked(all_j))
                  /\ Len(LastN(Unlinked(all_j), n) \o SelectSeq(all_j, IsLinked)) = 2 * n
                  /\ Len(all_j) >= 2 * n /\ Len(all_f) >= 2 * n

====
